---------------------------- MODULE Spec2Model ----------------------------
(***************************************************************************)
(* Meeting-extract workflow of the ceo-agent-bridge extension              *)
(* (workflows/meeting-extract.ts, the version with the conflict queue).    *)
(*                                                                         *)
(* A text is a sequence of tokens: the maximal runs of non-blank           *)
(* characters of the source string, in order.  Whitespace between tokens   *)
(* is what the source's \s+ and trim() consume.  Tokens are written in     *)
(* ASCII; the Chinese markers of the source are spelled in pinyin:         *)
(*   "JUECE" = decision marker, "DAIBAN" = action marker, "ZAI" = the      *)
(*   preposition between owner and date, "QIAN_WANCHENG" / "WANCHENG" =    *)
(*   the "(before) complete" word that follows the date.                   *)
(*   "Zhang3", "Wang5" stand for owner names and "contract", "budget" for  *)
(*   task wordings written in Chinese characters.                          *)
(*   ":" stands for either the ASCII or the full-width colon.              *)
(***************************************************************************)
EXTENDS Integers, Sequences, FiniteSets, TLC

VARIABLES
    payload,                     \* the payload of the invocation
    todo,                        \* transcript.chunks still to be iterated
    pc,                          \* "start" | "idle" | "loop" | "done": position in the run
    chunks,                      \* transcript.chunks consumed so far (the current one last)
    extracted,                   \* extractMeetingSignals(chunk): what is left to iterate
    beforeDecisions,
    beforeTasks,
    seenDecision,
    seenTask,
    conflictedDescriptions,
    decisions,
    tasks,
    confirmedTaskByDescription,
    pendingConfirmations,
    incrementalUpdates,
    result,                      \* the returned data, once pc = "done"
    calls,                       \* the local state of each of several invocations
    lib                          \* a call of a function of meeting/conflict-queue.ts

vars == <<payload, todo, pc, chunks, extracted, beforeDecisions, beforeTasks,
          seenDecision, seenTask,
          conflictedDescriptions, decisions, tasks, confirmedTaskByDescription,
          pendingConfirmations, incrementalUpdates, result, calls, lib>>

engine == <<seenDecision, seenTask, conflictedDescriptions, decisions, tasks,
            confirmedTaskByDescription, pendingConfirmations>>

-----------------------------------------------------------------------------
(* Bounds of the model *)

MaxChunks == 3      \* chunks per run
MaxLines == 4       \* lines per run, over all chunks

-----------------------------------------------------------------------------
(* The input alphabet *)

D1 == "2026-02-25"
D2 == "2026-02-26"

\* tokens of the shape \d{4}-\d{2}-\d{2}
Dates == {D1, D2}

\* tokens made of ASCII letters, digits, "_" and "-" that start with a letter
AsciiWords == {"Bob", "Amy", "by", "BY", "action", "Action", "decision", "Decision",
               "beta", "pilot", "note", "only"}

\* String.prototype.toLowerCase on the tokens whose case matters to an /i pattern
Lower(tok) ==
    CASE tok = "Action" -> "action"
      [] tok = "Decision" -> "decision"
      [] tok = "BY" -> "by"
      [] OTHER -> tok

DecisionLines ==
    { <<"JUECE", ":", "beta">>,
      <<"Decision", ":", "pilot">> }

TaskLines ==
    { <<"DAIBAN", ":", "Zhang3", "ZAI", D1, "QIAN_WANCHENG", "contract">>,
      <<"DAIBAN", ":", "Zhang3", "ZAI", D1, "WANCHENG", "contract">>,
      <<"Action", ":", "Bob", "BY", D1, "contract">>,
      <<"DAIBAN", ":", "Zhang3", "ZAI", D2, "QIAN_WANCHENG", "contract">>,
      <<"DAIBAN", ":", "contract">>,
      <<"DAIBAN", ":", "Wang5", "ZAI", D1, "QIAN_WANCHENG", "budget">>,
      <<"action", ":", "Amy", "by", D2>> }

NoiseLine == <<"note", "only">>

\* the non-empty trimmed lines a streamed chunk holds: the lines that carry a signal
Lines == DecisionLines \cup TaskLines

\* a chunk: its lines, in order (toLines of a non-empty trimmed chunk text)
ChunksUpTo(n) == UNION { [1..k -> Lines] : k \in 1..n }

-----------------------------------------------------------------------------
(* Pure helpers *)

NoValue == "undefined"

Drop(s, n) == SubSeq(s, n + 1, Len(s))

SetMin(S) == CHOOSE x \in S : \A y \in S : x <= y

\* text.match(/\b\d{4}-\d{2}-\d{2}\b/)?.[0]
extractDueDate(text) ==
    LET hits == { i \in 1..Len(text) : text[i] \in Dates }
    IN  IF hits = {} THEN NoValue ELSE text[SetMin(hits)]

\* /^([^\s在:：]+)\s+在\s+\d{4}-\d{2}-\d{2}/
zhOwnerMatch(text) ==
    /\ Len(text) >= 3
    /\ text[1] \notin {"ZAI", ":"}
    /\ text[2] = "ZAI"
    /\ text[3] \in Dates

\* /^([A-Za-z][\w-]*)\s+by\s+\d{4}-\d{2}-\d{2}/i
enOwnerMatch(text) ==
    /\ Len(text) >= 3
    /\ text[1] \in AsciiWords
    /\ Lower(text[2]) = "by"
    /\ text[3] \in Dates

extractOwner(text) ==
    IF zhOwnerMatch(text) THEN text[1]
    ELSE IF enOwnerMatch(text) THEN text[1]
    ELSE NoValue

\* the zh replace needs "\s+前?完成" after the date; the en replace needs "\s+" after
\* the date, which a trimmed text only has when something follows the date
extractTaskDescription(text) ==
    IF zhOwnerMatch(text) /\ Len(text) >= 4 /\ text[4] \in {"QIAN_WANCHENG", "WANCHENG"}
    THEN Drop(text, 4)
    ELSE IF enOwnerMatch(text) /\ Len(text) >= 4
    THEN Drop(text, 3)
    ELSE text

MeetingTask(taskText) ==
    [ text |-> taskText,
      description |-> extractTaskDescription(taskText),
      owner |-> extractOwner(taskText),
      due_at |-> extractDueDate(taskText) ]

\* /^(?:决策|decision)\s*[:：]\s*(.+)$/i
decisionMatch(line) ==
    /\ Len(line) >= 3
    /\ Lower(line[1]) \in {"JUECE", "decision"}
    /\ line[2] = ":"

\* /^(?:待办|action)\s*[:：]\s*(.+)$/i
taskMatch(line) ==
    /\ Len(line) >= 3
    /\ Lower(line[1]) \in {"DAIBAN", "action"}
    /\ line[2] = ":"

\* a string of several lines is the sequence of its lines; a line of whitespace only
\* is <<>>, and so is the empty string

\* text.split(/\r?\n/).map(line => line.trim()).filter(line => line.length > 0)
toLines(text) == SelectSeq(text, LAMBDA line : line # <<>>)

\* String.prototype.trim on a string of several lines: the blank lines at both ends go
RECURSIVE trimStart(_)
trimStart(text) ==
    IF text = <<>> THEN <<>>
    ELSE IF Head(text) = <<>> THEN trimStart(Tail(text))
    ELSE text

RECURSIVE trim(_)
trim(text) ==
    LET t == trimStart(text)
    IN  IF t = <<>> THEN <<>>
        ELSE IF t[Len(t)] = <<>> THEN trim(SubSeq(t, 1, Len(t) - 1))
        ELSE t

\* the for-loop of extractMeetingSignals over the lines
RECURSIVE classifyLines(_)
classifyLines(lines) ==
    IF lines = <<>> THEN [decisions |-> <<>>, tasks |-> <<>>]
    ELSE LET line == Head(lines)
             rest == classifyLines(Tail(lines))
         IN  IF decisionMatch(line)
             THEN [rest EXCEPT !.decisions = <<Drop(line, 2)>> \o @]
             ELSE IF taskMatch(line)
             THEN [rest EXCEPT !.tasks = <<MeetingTask(Drop(line, 2))>> \o @]
             ELSE rest

extractMeetingSignals(text) == classifyLines(toLines(text))


-----------------------------------------------------------------------------
(* The conflict queue and the card *)

\* mutant: the entry is looked up by description alone
findPending_byDescription(pending, conflictType, description) ==
    LET hits == { i \in 1..Len(pending) : pending[i].description = description }
    IN  IF hits = {} THEN 0 ELSE SetMin(hits)

\* pending.find(item => item.conflict_type === conflictType && item.description === description)
findPending(pending, conflictType, description) ==
    LET hits == { i \in 1..Len(pending) :
                    /\ pending[i].conflict_type = conflictType
                    /\ pending[i].description = description }
    IN  IF hits = {} THEN 0 ELSE SetMin(hits)

\* target.candidates.some(item => item.text === candidate.text)
candidateExists(candidates, candidate) ==
    \E i \in 1..Len(candidates) : candidates[i].text = candidate.text

\* mutant: new candidates are put in front (unshift for push)
RECURSIVE pushCandidates_front(_, _)
pushCandidates_front(have, candidates) ==
    IF candidates = <<>> THEN have
    ELSE pushCandidates_front(
             IF candidateExists(have, Head(candidates)) THEN have
             ELSE <<Head(candidates)>> \o have,
             Tail(candidates))

\* the for-loop of upsertPendingConfirmation over the given candidates
RECURSIVE pushCandidates(_, _)
pushCandidates(have, candidates) ==
    IF candidates = <<>> THEN have
    ELSE pushCandidates(
             IF candidateExists(have, Head(candidates)) THEN have
             ELSE Append(have, Head(candidates)),
             Tail(candidates))

\* mutant: the entry's candidates are replaced by the given ones, not merged
upsertPendingConfirmation_replace(pending, conflictType, description, candidates) ==
    LET at == findPending(pending, conflictType, description)
        entry == [conflict_type |-> conflictType, description |-> description,
                  candidates |-> candidates]
    IN  IF at = 0 THEN Append(pending, entry) ELSE [pending EXCEPT ![at] = entry]

\* mutant: a new entry is pushed at every call, whether one exists or not
upsertPendingConfirmation_alwaysNew(pending, conflictType, description, candidates) ==
    Append(pending, [conflict_type |-> conflictType,
                     description |-> description,
                     candidates |-> pushCandidates(<<>>, candidates)])

upsertPendingConfirmation(pending, conflictType, description, candidates) ==
    LET at == findPending(pending, conflictType, description)
        withTarget ==
            IF at = 0
            THEN Append(pending, [conflict_type |-> conflictType,
                                  description |-> description,
                                  candidates |-> <<>>])
            ELSE pending
        k == IF at = 0 THEN Len(withTarget) ELSE at
    IN  [withTarget EXCEPT ![k].candidates = pushCandidates(@, candidates)]

\* mutant: the presence checks are missing
ownerConflict_noPresence(existing, task) == existing.owner # task.owner

\* Boolean(existing.owner) && Boolean(task.owner) && existing.owner !== task.owner
ownerConflict(existing, task) ==
    /\ existing.owner # NoValue
    /\ task.owner # NoValue
    /\ existing.owner # task.owner

\* Boolean(existing.due_at) && Boolean(task.due_at) && existing.due_at !== task.due_at
dateConflict(existing, task) ==
    /\ existing.due_at # NoValue
    /\ task.due_at # NoValue
    /\ existing.due_at # task.due_at

\* mutant: the filter compares the raw text, which no description equals here
keepTasks_byText(list, description) ==
    SelectSeq(list, LAMBDA item : item.text # description)

\* mutant: the task that follows the evicted one goes with it (splice of two)
keepTasks_spliceTwo(list, description) ==
    LET hits == { i \in 1..Len(list) : list[i].description = description }
    IN  IF hits = {} THEN list
        ELSE SubSeq(list, 1, SetMin(hits) - 1) \o SubSeq(list, SetMin(hits) + 2, Len(list))

\* tasks.filter(item => item.description !== description)
RECURSIVE keepTasks(_, _)
keepTasks(list, description) ==
    IF list = <<>> THEN <<>>
    ELSE IF Head(list).description # description
    THEN <<Head(list)>> \o keepTasks(Tail(list), description)
    ELSE keepTasks(Tail(list), description)

\* mutant: the seen-task check is skipped
seenTaskHas_skipped(seen, task) == FALSE

\* mutant: the seen-decision check is skipped
seenDecisionHas_skipped(seen, decision) == FALSE

\* seenTask.has(task.text)
seenTaskHas(seen, task) == task.text \in seen

\* seenDecision.has(decision)
seenDecisionHas(seen, decision) == decision \in seen

\* mutant: the lookup compares the confirmed task's raw text with the description
hasConfirmed_byText(index, description) ==
    \E d \in DOMAIN index : index[d].text = description

\* mutant: the description index is never consulted
hasConfirmed_never(index, description) == FALSE

\* confirmedTaskByDescription.get(description) !== undefined
hasConfirmed(index, description) == description \in DOMAIN index

\* mutant: the conflicted set is not consulted
isConflicted_skipped(conflicted, description) == FALSE

\* conflictedDescriptions.has(description)
isConflicted(conflicted, description) == description \in conflicted

\* Map.prototype.set
mapSet(index, key, value) ==
    [ k \in (DOMAIN index) \cup {key} |-> IF k = key THEN value ELSE index[k] ]

\* mutant: delete removes nothing
mapDelete_none(index, key) == index

\* Map.prototype.delete
mapDelete(index, key) ==
    [ k \in (DOMAIN index) \ {key} |-> index[k] ]

\* mutant: both buckets are queued at every eviction, whichever attribute differs
queueConflicts_bothTypes(pending, existing, task) ==
    upsertPendingConfirmation(
        upsertPendingConfirmation(pending, "owner_conflict", task.description,
                                  <<existing, task>>),
        "date_conflict", task.description, <<existing, task>>)

\* mutant: the eviction queues the new task only, not the evicted one
queueConflicts_newOnly(pending, existing, task) ==
    LET afterOwner ==
            IF ownerConflict(existing, task)
            THEN upsertPendingConfirmation(pending, "owner_conflict", task.description,
                                           <<task>>)
            ELSE pending
    IN  IF dateConflict(existing, task)
        THEN upsertPendingConfirmation(afterOwner, "date_conflict", task.description,
                                       <<task>>)
        ELSE afterOwner

\* the two upserts of the eviction branch, owner_conflict first
queueConflicts(pending, existing, task) ==
    LET afterOwner ==
            IF ownerConflict(existing, task)
            THEN upsertPendingConfirmation(pending, "owner_conflict", task.description,
                                           <<existing, task>>)
            ELSE pending
    IN  IF dateConflict(existing, task)
        THEN upsertPendingConfirmation(afterOwner, "date_conflict", task.description,
                                       <<existing, task>>)
        ELSE afterOwner

\* mutant: the late candidate reaches the owner_conflict entry only
queueLateCandidate_ownerOnly(pending, task, conflictTypes) ==
    IF findPending(pending, "owner_conflict", task.description) # 0
    THEN upsertPendingConfirmation(pending, "owner_conflict", task.description, <<task>>)
    ELSE pending

RECURSIVE queueLateCandidate_always(_, _, _)
\* mutant: the late candidate is upserted for both types, queued or not
queueLateCandidate_always(pending, task, conflictTypes) ==
    IF conflictTypes = <<>> THEN pending
    ELSE queueLateCandidate_always(
             upsertPendingConfirmation(pending, Head(conflictTypes), task.description,
                                       <<task>>),
             task, Tail(conflictTypes))

\* for (const conflictType of ["owner_conflict", "date_conflict"]) { if (hasConflict) upsert }
RECURSIVE queueLateCandidate(_, _, _)
queueLateCandidate(pending, task, conflictTypes) ==
    IF conflictTypes = <<>> THEN pending
    ELSE queueLateCandidate(
             IF findPending(pending, Head(conflictTypes), task.description) # 0
             THEN upsertPendingConfirmation(pending, Head(conflictTypes), task.description,
                                            <<task>>)
             ELSE pending,
             task, Tail(conflictTypes))

MeetingId == "m_001"

CardLimit == 8

Min(a, b) == IF a <= b THEN a ELSE b

\* mutant: task_count is the number of rendered items
buildPostMeetingCard_cappedCount(meetingId, taskList, pending) ==
    [ card_type |-> "meeting_dispatch",
      meeting_id |-> meetingId,
      task_count |-> Min(CardLimit, Len(taskList)),
      pending_count |-> Len(pending),
      items |-> [ i \in 1..Min(CardLimit, Len(taskList)) |->
                    [ recommendation_id |-> <<meetingId, "task", i>>,
                      title |-> IF taskList[i].description # <<>>
                                THEN taskList[i].description ELSE taskList[i].text,
                      owner |-> taskList[i].owner,
                      due_at |-> taskList[i].due_at,
                      actions |-> <<"accept", "ignore", "reschedule">> ] ] ]

buildPostMeetingCard(meetingId, taskList, pending) ==
    [ card_type |-> "meeting_dispatch",
      meeting_id |-> meetingId,
      task_count |-> Len(taskList),
      pending_count |-> Len(pending),
      items |-> [ i \in 1..Min(CardLimit, Len(taskList)) |->
                    [ recommendation_id |-> <<meetingId, "task", i>>,
                      title |-> IF taskList[i].description # <<>>
                                THEN taskList[i].description ELSE taskList[i].text,
                      owner |-> taskList[i].owner,
                      due_at |-> taskList[i].due_at,
                      actions |-> <<"accept", "ignore", "reschedule">> ] ] ]

-----------------------------------------------------------------------------
(* The payload and readTranscriptChunks *)

\* values of a payload field or of a stream item, by their typeof
Str(value) == [type |-> "string", value |-> value]

Undefined == [type |-> "undefined"]

\* a value that is neither a string, nor an object, nor an array
Number == [type |-> "number"]

\* an object, with the value of its text property
Obj(textValue) == [type |-> "object", text |-> textValue]

Arr(items) == [type |-> "array", items |-> items]

\* context.requestId
RequestId == "req_1"

\* a meeting id is one token; "" stands for the strings that trim() empties
readMeetingId(requestId, p) ==
    IF p.meeting_id.type = "string" /\ p.meeting_id.value # ""
    THEN p.meeting_id.value
    ELSE requestId

\* the callback of stream.map
itemText(item) ==
    IF item.type = "string" THEN trim(item.value)
    ELSE IF item.type = "object"
    THEN IF item.text.type = "string" THEN trim(item.text.value) ELSE <<>>
    ELSE <<>>

\* mutant: the blank items are not filtered out
keepNonBlank_all(texts) == texts

\* .filter(item => item.length > 0)
keepNonBlank(texts) == SelectSeq(texts, LAMBDA t : t # <<>>)

RECURSIVE join(_)
\* chunks.join("\n"): the lines of the chunks, in order
join(texts) == IF texts = <<>> THEN <<>> ELSE Head(texts) \o join(Tail(texts))

\* the raw_text branch of readTranscriptChunks
readRawText(p) ==
    LET rawText == IF p.raw_text.type = "string" THEN trim(p.raw_text.value) ELSE <<>>
    IN  [ text |-> rawText,
          sourceType |-> "text",
          chunks |-> IF rawText # <<>> THEN <<rawText>> ELSE <<>> ]

\* mutant: a stream without a non-blank item falls back to raw_text
readTranscriptChunks_fallback(p) ==
    LET stream == p.transcript_stream
        kept == IF stream.type = "array"
                THEN keepNonBlank([ i \in 1..Len(stream.items) |-> itemText(stream.items[i]) ])
                ELSE <<>>
    IN  IF kept # <<>>
        THEN [ text |-> join(kept), sourceType |-> "transcript_stream", chunks |-> kept ]
        ELSE readRawText(p)

\* mutant: the raw text is a chunk even when it is blank
readTranscriptChunks_blankChunk(p) ==
    LET stream == p.transcript_stream
    IN  IF stream.type = "array" /\ Len(stream.items) > 0
        THEN LET kept == keepNonBlank([ i \in 1..Len(stream.items) |->
                                         itemText(stream.items[i]) ])
             IN  [ text |-> join(kept), sourceType |-> "transcript_stream", chunks |-> kept ]
        ELSE [readRawText(p) EXCEPT !.chunks = <<readRawText(p).text>>]

readTranscriptChunks(p) ==
    LET stream == p.transcript_stream
    IN  IF stream.type = "array" /\ Len(stream.items) > 0
        THEN LET kept == keepNonBlank([ i \in 1..Len(stream.items) |->
                                         itemText(stream.items[i]) ])
             IN  [ text |-> join(kept), sourceType |-> "transcript_stream", chunks |-> kept ]
        ELSE readRawText(p)

-----------------------------------------------------------------------------
(* runMeetingExtractWorkflow *)

NoResult == [status |-> "none"]

\* the state at the head of the forEach over transcript.chunks
EngineInit ==
    /\ chunks = <<>>
    /\ extracted = [decisions |-> <<>>, tasks |-> <<>>]
    /\ beforeDecisions = 0
    /\ beforeTasks = 0
    /\ seenDecision = {}
    /\ seenTask = {}
    /\ conflictedDescriptions = {}
    /\ decisions = <<>>
    /\ tasks = <<>>
    /\ confirmedTaskByDescription = <<>>
    /\ pendingConfirmations = <<>>
    /\ incrementalUpdates = <<>>
    /\ result = NoResult

\* the payload is a transcript_stream whose items are read as they arrive
Init ==
    /\ payload = [ meeting_id |-> Str(MeetingId),
                   raw_text |-> Undefined,
                   transcript_stream |-> Arr(<<>>) ]
    /\ todo = <<>>
    /\ pc = "idle"
    /\ EngineInit
    /\ calls = <<>>
    /\ lib = <<>>

RECURSIVE lineCount(_)
lineCount(cs) == IF cs = <<>> THEN 0 ELSE Len(Head(cs)) + lineCount(Tail(cs))

\* mutant: every chunk starts with empty seen sets
ChunkArrive_freshSeen ==
    /\ pc = "idle"
    /\ Len(chunks) < MaxChunks
    /\ \E chunk \in ChunksUpTo(MaxLines - lineCount(chunks)) :
          /\ payload' = [payload EXCEPT !.transcript_stream.items = Append(@, Str(chunk))]
          /\ chunks' = Append(chunks, chunk)
          /\ extracted' = extractMeetingSignals(chunk)
    /\ beforeDecisions' = Len(decisions)
    /\ beforeTasks' = Len(tasks)
    /\ pc' = "loop"
    /\ seenDecision' = {}
    /\ seenTask' = {}
    /\ UNCHANGED <<calls, lib, todo, conflictedDescriptions, decisions, tasks,
                   confirmedTaskByDescription, pendingConfirmations,
                   incrementalUpdates, result>>

\* the head of one forEach iteration: extract the chunk's signals, note the lengths
ChunkArrive ==
    /\ pc = "idle"
    /\ Len(chunks) < MaxChunks
    /\ \E chunk \in ChunksUpTo(MaxLines - lineCount(chunks)) :
          /\ payload' = [payload EXCEPT !.transcript_stream.items = Append(@, Str(chunk))]
          /\ chunks' = Append(chunks, chunk)
          /\ extracted' = extractMeetingSignals(chunk)
    /\ beforeDecisions' = Len(decisions)
    /\ beforeTasks' = Len(tasks)
    /\ pc' = "loop"
    /\ UNCHANGED <<calls, lib, todo, engine, incrementalUpdates, result>>

\* one iteration of "for (const decision of extracted.decisions)"
NextDecision ==
    /\ pc = "loop"
    /\ extracted.decisions # <<>>
    /\ LET decision == Head(extracted.decisions)
       IN  IF seenDecisionHas(seenDecision, decision)
           THEN UNCHANGED <<seenDecision, decisions>>
           ELSE /\ seenDecision' = seenDecision \cup {decision}
                /\ decisions' = Append(decisions, decision)
    /\ extracted' = [extracted EXCEPT !.decisions = Tail(@)]
    /\ UNCHANGED <<calls, lib, payload, todo, pc, chunks, beforeDecisions, beforeTasks,
                   seenTask,
                   conflictedDescriptions, tasks, confirmedTaskByDescription,
                   pendingConfirmations, incrementalUpdates, result>>

\* the task loop starts when the decision loop is over
AtTask ==
    /\ pc = "loop"
    /\ extracted.decisions = <<>>
    /\ extracted.tasks # <<>>

TaskStepFrame ==
    /\ extracted' = [extracted EXCEPT !.tasks = Tail(@)]
    /\ UNCHANGED <<calls, lib, payload, todo, pc, chunks, beforeDecisions, beforeTasks,
                   seenDecision,
                   decisions, incrementalUpdates, result>>

\* if (seenTask.has(task.text)) continue
TaskSeen ==
    /\ AtTask
    /\ seenTaskHas(seenTask, Head(extracted.tasks))
    /\ UNCHANGED <<seenTask, conflictedDescriptions, tasks, confirmedTaskByDescription,
                   pendingConfirmations>>
    /\ TaskStepFrame

\* mutant: the eviction leaves the confirmed list as it is
TaskEvict_keepList ==
    /\ AtTask
    /\ LET task == Head(extracted.tasks)
       IN  /\ ~seenTaskHas(seenTask, task)
           /\ hasConfirmed(confirmedTaskByDescription, task.description)
           /\ LET existing == confirmedTaskByDescription[task.description]
              IN  /\ ownerConflict(existing, task) \/ dateConflict(existing, task)
                  /\ seenTask' = seenTask \cup {task.text}
                  /\ conflictedDescriptions' = conflictedDescriptions \cup {task.description}
                  /\ confirmedTaskByDescription' =
                         mapDelete(confirmedTaskByDescription, task.description)
                  /\ tasks' = tasks
                  /\ pendingConfirmations' = queueConflicts(pendingConfirmations, existing, task)
    /\ TaskStepFrame

\* mutant: the eviction does not mark the description as conflicted
TaskEvict_noMark ==
    /\ AtTask
    /\ LET task == Head(extracted.tasks)
       IN  /\ ~seenTaskHas(seenTask, task)
           /\ hasConfirmed(confirmedTaskByDescription, task.description)
           /\ LET existing == confirmedTaskByDescription[task.description]
              IN  /\ ownerConflict(existing, task) \/ dateConflict(existing, task)
                  /\ seenTask' = seenTask \cup {task.text}
                  /\ conflictedDescriptions' = conflictedDescriptions
                  /\ confirmedTaskByDescription' =
                         mapDelete(confirmedTaskByDescription, task.description)
                  /\ tasks' = keepTasks(tasks, task.description)
                  /\ pendingConfirmations' = queueConflicts(pendingConfirmations, existing, task)
    /\ TaskStepFrame

\* existing && (ownerConflict || dateConflict): evict and queue
TaskEvict ==
    /\ AtTask
    /\ LET task == Head(extracted.tasks)
       IN  /\ ~seenTaskHas(seenTask, task)
           /\ hasConfirmed(confirmedTaskByDescription, task.description)
           /\ LET existing == confirmedTaskByDescription[task.description]
              IN  /\ ownerConflict(existing, task) \/ dateConflict(existing, task)
                  /\ seenTask' = seenTask \cup {task.text}
                  /\ conflictedDescriptions' = conflictedDescriptions \cup {task.description}
                  /\ confirmedTaskByDescription' =
                         mapDelete(confirmedTaskByDescription, task.description)
                  /\ tasks' = keepTasks(tasks, task.description)
                  /\ pendingConfirmations' = queueConflicts(pendingConfirmations, existing, task)
    /\ TaskStepFrame

\* mutant: a task that does not differ takes the place of the indexed task
TaskNoDifference_remember ==
    /\ AtTask
    /\ LET task == Head(extracted.tasks)
       IN  /\ ~seenTaskHas(seenTask, task)
           /\ hasConfirmed(confirmedTaskByDescription, task.description)
           /\ LET existing == confirmedTaskByDescription[task.description]
              IN  ~(ownerConflict(existing, task) \/ dateConflict(existing, task))
           /\ seenTask' = seenTask \cup {task.text}
           /\ confirmedTaskByDescription' =
                  mapSet(confirmedTaskByDescription, task.description, task)
    /\ UNCHANGED <<conflictedDescriptions, tasks, pendingConfirmations>>
    /\ TaskStepFrame

\* existing, and neither attribute differs: continue
TaskNoDifference ==
    /\ AtTask
    /\ LET task == Head(extracted.tasks)
       IN  /\ ~seenTaskHas(seenTask, task)
           /\ hasConfirmed(confirmedTaskByDescription, task.description)
           /\ LET existing == confirmedTaskByDescription[task.description]
              IN  ~(ownerConflict(existing, task) \/ dateConflict(existing, task))
           /\ seenTask' = seenTask \cup {task.text}
    /\ UNCHANGED <<conflictedDescriptions, tasks, confirmedTaskByDescription,
                   pendingConfirmations>>
    /\ TaskStepFrame

\* no existing, description conflicted: append to the queued entries of the description
TaskLateCandidate ==
    /\ AtTask
    /\ LET task == Head(extracted.tasks)
       IN  /\ ~seenTaskHas(seenTask, task)
           /\ ~hasConfirmed(confirmedTaskByDescription, task.description)
           /\ isConflicted(conflictedDescriptions, task.description)
           /\ seenTask' = seenTask \cup {task.text}
           /\ pendingConfirmations' =
                  queueLateCandidate(pendingConfirmations, task,
                                     <<"owner_conflict", "date_conflict">>)
    /\ UNCHANGED <<conflictedDescriptions, tasks, confirmedTaskByDescription>>
    /\ TaskStepFrame

\* mutant: the confirmed task is put in front of the list (unshift for push)
TaskConfirm_unshift ==
    /\ AtTask
    /\ LET task == Head(extracted.tasks)
       IN  /\ ~seenTaskHas(seenTask, task)
           /\ ~hasConfirmed(confirmedTaskByDescription, task.description)
           /\ ~isConflicted(conflictedDescriptions, task.description)
           /\ seenTask' = seenTask \cup {task.text}
           /\ confirmedTaskByDescription' =
                  mapSet(confirmedTaskByDescription, task.description, task)
           /\ tasks' = <<task>> \o tasks
    /\ UNCHANGED <<conflictedDescriptions, pendingConfirmations>>
    /\ TaskStepFrame

\* no existing, not conflicted: confirm
TaskConfirm ==
    /\ AtTask
    /\ LET task == Head(extracted.tasks)
       IN  /\ ~seenTaskHas(seenTask, task)
           /\ ~hasConfirmed(confirmedTaskByDescription, task.description)
           /\ ~isConflicted(conflictedDescriptions, task.description)
           /\ seenTask' = seenTask \cup {task.text}
           /\ confirmedTaskByDescription' =
                  mapSet(confirmedTaskByDescription, task.description, task)
           /\ tasks' = Append(tasks, task)
    /\ UNCHANGED <<conflictedDescriptions, pendingConfirmations>>
    /\ TaskStepFrame

\* mutant: tasks_added is the list length, the length before the chunk not subtracted
incrementalUpdate_noBefore(chunkIndex, beforeD, beforeT, decisionList, taskList) ==
    [ chunk_index |-> chunkIndex,
      decisions_added |-> Len(decisionList) - beforeD,
      tasks_added |-> Len(taskList),
      total_decisions |-> Len(decisionList),
      total_tasks |-> Len(taskList) ]

\* mutant: total_tasks is the length noted before the chunk
incrementalUpdate_totalBefore(chunkIndex, beforeD, beforeT, decisionList, taskList) ==
    [ chunk_index |-> chunkIndex,
      decisions_added |-> Len(decisionList) - beforeD,
      tasks_added |-> Len(taskList) - beforeT,
      total_decisions |-> Len(decisionList),
      total_tasks |-> beforeT ]

\* the record pushed at the end of a forEach iteration
incrementalUpdate(chunkIndex, beforeD, beforeT, decisionList, taskList) ==
    [ chunk_index |-> chunkIndex,
      decisions_added |-> Len(decisionList) - beforeD,
      tasks_added |-> Len(taskList) - beforeT,
      total_decisions |-> Len(decisionList),
      total_tasks |-> Len(taskList) ]

\* incrementalUpdates.push({...}) at the end of the forEach iteration
RecordUpdate ==
    /\ pc = "loop"
    /\ extracted.decisions = <<>>
    /\ extracted.tasks = <<>>
    /\ incrementalUpdates' =
           Append(incrementalUpdates,
                  incrementalUpdate(Len(chunks) - 1, beforeDecisions, beforeTasks,
                                    decisions, tasks))
    /\ pc' = "idle"
    /\ UNCHANGED <<calls, lib, payload, todo, chunks, extracted, beforeDecisions,
                   beforeTasks, engine,
                   result>>

\* the chunk list is exhausted: build the result
Return ==
    /\ pc = "idle"
    /\ todo = <<>>
    /\ result' =
           [ status |-> "success",
             errors |-> <<>>,
             meeting_id |-> readMeetingId(RequestId, payload),
             source_type |-> readTranscriptChunks(payload).sourceType,
             transcript_text |-> readTranscriptChunks(payload).text,
             decision_count |-> Len(decisions),
             task_count |-> Len(tasks),
             decisions |-> decisions,
             tasks |-> tasks,
             pending_confirmations |-> pendingConfirmations,
             post_meeting_card |->
                 buildPostMeetingCard(readMeetingId(RequestId, payload), tasks,
                                      pendingConfirmations),
             incremental_updates |-> incrementalUpdates ]
    /\ pc' = "done"
    /\ UNCHANGED <<calls, lib, payload, todo, chunks, extracted, beforeDecisions,
                   beforeTasks, engine,
                   incrementalUpdates>>

Next ==
    \/ ChunkArrive
    \/ NextDecision
    \/ TaskSeen
    \/ TaskEvict
    \/ TaskNoDifference
    \/ TaskLateCandidate
    \/ TaskConfirm
    \/ RecordUpdate
    \/ Return

Spec == Init /\ [][Next]_vars

-----------------------------------------------------------------------------
(* The run from a whole payload: readTranscriptChunks, then the forEach *)

MaxItems == 2       \* items of a transcript_stream

EmptyText == <<>>

\* whitespace and a line break
BlankText == << <<>>, <<>> >>

\* a decision line and a task line without owner and date
DecisionText == << <<"JUECE", ":", "beta">>, <<"DAIBAN", ":", "contract">> >>

TaskText ==
    << <<"DAIBAN", ":", "Zhang3", "ZAI", D1, "QIAN_WANCHENG", "contract">> >>

TwoTaskText ==
    << <<"DAIBAN", ":", "Zhang3", "ZAI", D1, "WANCHENG", "contract">>,
       <<"Action", ":", "Bob", "BY", D1, "contract">> >>

\* blank lines and a line without signal around a decision line and a task line
PaddedText ==
    << <<>>, <<"decision", ":", "pilot">>, <<>>, NoiseLine,
       <<"action", ":", "Amy", "by", D2>>, <<>> >>

PayloadTexts == {EmptyText, BlankText, DecisionText, TaskText, TwoTaskText, PaddedText}

\* what a stream item can be: a string, an object with or without a string text, a
\* number, an array
StreamItems ==
    { Str(t) : t \in PayloadTexts }
    \cup { Obj(Str(t)) : t \in {BlankText, TaskText, PaddedText} }
    \cup { Obj(Number), Number, Arr(<<Str(DecisionText)>>) }

StreamValues ==
    { Undefined, Str(TaskText) }
    \cup { Arr(items) : items \in UNION { [1..n -> StreamItems] : n \in 0..MaxItems } }

RawTextValues ==
    { Undefined, Number, Str(EmptyText), Str(BlankText), Str(TwoTaskText), Str(PaddedText) }

MeetingIdValues == { Undefined, Str(""), Str(MeetingId) }

Payloads ==
    [ meeting_id : MeetingIdValues, raw_text : RawTextValues, transcript_stream : StreamValues ]

InitPayload ==
    /\ payload \in Payloads
    /\ todo = <<>>
    /\ pc = "start"
    /\ EngineInit
    /\ calls = <<>>
    /\ lib = <<>>

\* const transcript = readTranscriptChunks(payload)
ReadTranscript ==
    /\ pc = "start"
    /\ todo' = readTranscriptChunks(payload).chunks
    /\ pc' = "idle"
    /\ UNCHANGED <<calls, lib, payload, chunks, extracted, beforeDecisions, beforeTasks, engine,
                   incrementalUpdates, result>>

\* the head of one forEach iteration, for the next chunk of the transcript
TakeChunk ==
    /\ pc = "idle"
    /\ todo # <<>>
    /\ chunks' = Append(chunks, Head(todo))
    /\ todo' = Tail(todo)
    /\ extracted' = extractMeetingSignals(Head(todo))
    /\ beforeDecisions' = Len(decisions)
    /\ beforeTasks' = Len(tasks)
    /\ pc' = "loop"
    /\ UNCHANGED <<calls, lib, payload, engine, incrementalUpdates, result>>

NextPayload ==
    \/ ReadTranscript
    \/ TakeChunk
    \/ NextDecision
    \/ TaskSeen
    \/ TaskEvict
    \/ TaskNoDifference
    \/ TaskLateCandidate
    \/ TaskConfirm
    \/ RecordUpdate
    \/ Return

SpecPayload == InitPayload /\ [][NextPayload]_vars

-----------------------------------------------------------------------------
(* buildPostMeetingCard on task lists longer than the card, next to the runs *)

MaxCardTasks == 9   \* tasks given to buildPostMeetingCard

\* a task with owner, date and description, and one whose description is empty
CardTasks ==
    { MeetingTask(<<"Bob", "BY", D1, "contract">>),
      MeetingTask(<<"Zhang3", "ZAI", D2, "WANCHENG">>) }

CardPending ==
    [ conflict_type |-> "owner_conflict", description |-> <<"contract">>,
      candidates |-> <<>> ]

InitCard ==
    /\ payload \in [ meeting_id : {Undefined, Str(MeetingId)}, raw_text : {Undefined},
                      transcript_stream : {Undefined} ]
    /\ todo = <<>>
    /\ pc = "card"
    /\ chunks = <<>>
    /\ extracted = [decisions |-> <<>>, tasks |-> <<>>]
    /\ beforeDecisions = 0
    /\ beforeTasks = 0
    /\ seenDecision = {}
    /\ seenTask = {}
    /\ conflictedDescriptions = {}
    /\ decisions = <<>>
    /\ tasks \in UNION { [1..n -> CardTasks] : n \in 0..MaxCardTasks }
    /\ confirmedTaskByDescription = <<>>
    /\ pendingConfirmations \in { [ i \in 1..n |-> CardPending ] : n \in 0..2 }
    /\ incrementalUpdates = <<>>
    /\ result = NoResult
    /\ calls = <<>>
    /\ lib = <<>>

\* buildPostMeetingCard({ meetingId, tasks, pendingConfirmations })
BuildCard ==
    /\ pc = "card"
    /\ result' =
           [ status |-> "card",
             post_meeting_card |->
                 buildPostMeetingCard(readMeetingId(RequestId, payload), tasks,
                                      pendingConfirmations) ]
    /\ pc' = "done"
    /\ UNCHANGED <<calls, lib, payload, todo, chunks, extracted, beforeDecisions,
                   beforeTasks, engine,
                   incrementalUpdates>>

NextCard ==
    \/ BuildCard
    \/ NextPayload

SpecCard == (InitCard \/ InitPayload) /\ [][NextCard]_vars

-----------------------------------------------------------------------------
(* meeting/input-adapter.ts: adaptMeetingInput *)

RECURSIVE adaptDecisions(_, _)
\* for (const decision of extracted.decisions) { if (!seenDecision.has(decision)) ... }
adaptDecisions(a, found) ==
    IF found = <<>> THEN a
    ELSE adaptDecisions(
             IF Head(found) \in a.seenDecision THEN a
             ELSE [a EXCEPT !.seenDecision = @ \cup {Head(found)},
                            !.decisions = Append(@, Head(found))],
             Tail(found))

RECURSIVE adaptTasks_noSeen(_, _)
\* mutant: every extracted task is pushed, seen or not
adaptTasks_noSeen(a, found) ==
    IF found = <<>> THEN a
    ELSE adaptTasks_noSeen(
             [a EXCEPT !.seenTask = @ \cup {Head(found).text},
                       !.tasks = Append(@, Head(found))],
             Tail(found))

RECURSIVE adaptTasks(_, _)
\* for (const task of extracted.tasks) { if (!seenTask.has(task.text)) ... }
adaptTasks(a, found) ==
    IF found = <<>> THEN a
    ELSE adaptTasks(
             IF Head(found).text \in a.seenTask THEN a
             ELSE [a EXCEPT !.seenTask = @ \cup {Head(found).text},
                            !.tasks = Append(@, Head(found))],
             Tail(found))

\* one iteration of the adapter's forEach
adaptChunk(a, chunk, chunkIndex) ==
    LET found == extractMeetingSignals(chunk)
        after == adaptTasks(adaptDecisions(a, found.decisions), found.tasks)
    IN  [after EXCEPT !.incrementalUpdates =
                          Append(@, incrementalUpdate(chunkIndex, Len(a.decisions),
                                                      Len(a.tasks), after.decisions,
                                                      after.tasks))]

RECURSIVE adaptChunks(_, _, _)
\* transcript.chunks.forEach((chunk, chunkIndex) => ...)
adaptChunks(a, rest, chunkIndex) ==
    IF rest = <<>> THEN a
    ELSE adaptChunks(adaptChunk(a, Head(rest), chunkIndex), Tail(rest), chunkIndex + 1)

adaptMeetingInput(p) ==
    LET transcript == readTranscriptChunks(p)
        a == adaptChunks([ seenDecision |-> {}, seenTask |-> {}, decisions |-> <<>>,
                           tasks |-> <<>>, incrementalUpdates |-> <<>> ],
                         transcript.chunks, 0)
    IN  [ source_type |-> transcript.sourceType,
          transcript_text |-> transcript.text,
          chunks |-> transcript.chunks,
          decision_count |-> Len(a.decisions),
          task_count |-> Len(a.tasks),
          decisions |-> a.decisions,
          tasks |-> a.tasks,
          incremental_updates |-> a.incrementalUpdates ]

-----------------------------------------------------------------------------
(* Several invocations: each has the local state of runMeetingExtractWorkflow *)

\* the local state of an invocation that has just been entered
newCall(p) ==
    [ payload |-> p,
      todo |-> <<>>,
      pc |-> "start",
      chunks |-> <<>>,
      extracted |-> [decisions |-> <<>>, tasks |-> <<>>],
      beforeDecisions |-> 0,
      beforeTasks |-> 0,
      seenDecision |-> {},
      seenTask |-> {},
      conflictedDescriptions |-> {},
      decisions |-> <<>>,
      tasks |-> <<>>,
      confirmedTaskByDescription |-> <<>>,
      pendingConfirmations |-> <<>>,
      incrementalUpdates |-> <<>>,
      result |-> NoResult ]

\* one iteration of "for (const task of extracted.tasks)" on a local state
taskStep(s) ==
    LET task == Head(s.extracted.tasks)
        rest == [s EXCEPT !.extracted.tasks = Tail(@)]
        seen == [rest EXCEPT !.seenTask = @ \cup {task.text}]
    IN  IF seenTaskHas(s.seenTask, task) THEN rest
        ELSE IF hasConfirmed(s.confirmedTaskByDescription, task.description)
        THEN LET existing == s.confirmedTaskByDescription[task.description]
             IN  IF ownerConflict(existing, task) \/ dateConflict(existing, task)
                 THEN [seen EXCEPT
                         !.conflictedDescriptions = @ \cup {task.description},
                         !.confirmedTaskByDescription = mapDelete(@, task.description),
                         !.tasks = keepTasks(@, task.description),
                         !.pendingConfirmations = queueConflicts(@, existing, task)]
                 ELSE seen
        ELSE IF isConflicted(s.conflictedDescriptions, task.description)
        THEN [seen EXCEPT
                !.pendingConfirmations =
                    queueLateCandidate(@, task, <<"owner_conflict", "date_conflict">>)]
        ELSE [seen EXCEPT
                !.confirmedTaskByDescription = mapSet(@, task.description, task),
                !.tasks = Append(@, task)]

\* the data of the returned result, from a local state
returnData(s) ==
    [ status |-> "success",
      errors |-> <<>>,
      meeting_id |-> readMeetingId(RequestId, s.payload),
      source_type |-> readTranscriptChunks(s.payload).sourceType,
      transcript_text |-> readTranscriptChunks(s.payload).text,
      decision_count |-> Len(s.decisions),
      task_count |-> Len(s.tasks),
      decisions |-> s.decisions,
      tasks |-> s.tasks,
      pending_confirmations |-> s.pendingConfirmations,
      post_meeting_card |->
          buildPostMeetingCard(readMeetingId(RequestId, s.payload), s.tasks,
                               s.pendingConfirmations),
      incremental_updates |-> s.incrementalUpdates ]

\* the next local state of an invocation: the step its position calls for
runStep(s) ==
    IF s.pc = "start"
    THEN [s EXCEPT !.todo = readTranscriptChunks(s.payload).chunks, !.pc = "idle"]
    ELSE IF s.pc = "idle" /\ s.todo # <<>>
    THEN [s EXCEPT !.chunks = Append(@, Head(s.todo)),
                   !.todo = Tail(@),
                   !.extracted = extractMeetingSignals(Head(s.todo)),
                   !.beforeDecisions = Len(s.decisions),
                   !.beforeTasks = Len(s.tasks),
                   !.pc = "loop"]
    ELSE IF s.pc = "idle"
    THEN [s EXCEPT !.result = returnData(s), !.pc = "done"]
    ELSE IF s.pc = "loop" /\ s.extracted.decisions # <<>>
    THEN LET decision == Head(s.extracted.decisions)
             rest == [s EXCEPT !.extracted.decisions = Tail(@)]
         IN  IF seenDecisionHas(s.seenDecision, decision) THEN rest
             ELSE [rest EXCEPT !.seenDecision = @ \cup {decision},
                               !.decisions = Append(@, decision)]
    ELSE IF s.pc = "loop" /\ s.extracted.tasks # <<>>
    THEN taskStep(s)
    ELSE IF s.pc = "loop"
    THEN [s EXCEPT !.incrementalUpdates =
                       Append(@, incrementalUpdate(Len(s.chunks) - 1, s.beforeDecisions,
                                                   s.beforeTasks, s.decisions, s.tasks)),
                   !.pc = "idle"]
    ELSE s

MaxCalls == 3       \* invocations in progress at the same time

OtherMeetingId == "m_002"

BareTaskText == << <<"DAIBAN", ":", "contract">> >>

ForwardStream == <<Str(BareTaskText), Str(TwoTaskText)>>

\* the chunks of ForwardStream in the other order
BackwardStream == <<Str(TwoTaskText), Str(BareTaskText)>>

CallPayloads ==
    { [meeting_id |-> Str(MeetingId), raw_text |-> Undefined,
       transcript_stream |-> Arr(ForwardStream)],
      [meeting_id |-> Str(MeetingId), raw_text |-> Undefined,
       transcript_stream |-> Arr(BackwardStream)],
      [meeting_id |-> Str(OtherMeetingId), raw_text |-> Undefined,
       transcript_stream |-> Arr(BackwardStream)] }

InitCalls ==
    /\ calls \in [1..MaxCalls -> { newCall(p) : p \in CallPayloads }]
    /\ lib = <<>>
    /\ payload = Undefined
    /\ todo = <<>>
    /\ pc = "calls"
    /\ EngineInit

\* mutant: the seen-task set is one object, shared by the invocations
stepCall_sharedSeen(cs, i) ==
    LET stepped == [cs EXCEPT ![i] = runStep(cs[i])]
    IN  [ j \in DOMAIN cs |-> [stepped[j] EXCEPT !.seenTask = stepped[i].seenTask] ]

\* mutant: the pending queue is one object, shared by the invocations
stepCall_sharedQueue(cs, i) ==
    LET stepped == [cs EXCEPT ![i] = runStep(cs[i])]
    IN  [ j \in DOMAIN cs |->
            [stepped[j] EXCEPT !.pendingConfirmations = stepped[i].pendingConfirmations] ]

\* invocation i takes its next step, on its own local state
stepCall(cs, i) == [cs EXCEPT ![i] = runStep(cs[i])]

CallStep ==
    /\ \E i \in DOMAIN calls :
          /\ calls[i].pc # "done"
          /\ calls' = stepCall(calls, i)
    /\ UNCHANGED <<lib, payload, todo, pc, chunks, extracted, beforeDecisions, beforeTasks,
                   engine, incrementalUpdates, result>>

NextCalls ==
    \/ CallStep
    \/ NextPayload

\* invocations interleaved step by step, next to the single run from a whole payload
SpecCalls == (InitCalls \/ InitPayload) /\ [][NextCalls]_vars

-----------------------------------------------------------------------------
(* meeting/conflict-queue.ts: enqueueConflict and filterConfirmedTasks *)

\* queue.map(item => ({ ...item, candidates: [...item.candidates] }))
copyQueue(queue) ==
    [ k \in 1..Len(queue) |->
        [ conflict_type |-> queue[k].conflict_type,
          description |-> queue[k].description,
          candidates |-> [ n \in 1..Len(queue[k].candidates) |-> queue[k].candidates[n] ] ] ]

\* mutant: a candidate counts as present only if the whole record is in the entry
alreadyCandidate_byRecord(have, candidate) ==
    \E n \in 1..Len(have) : have[n] = candidate

\* target.candidates.some(item => item.text === candidate.text)
alreadyCandidate(have, candidate) ==
    \E n \in 1..Len(have) : have[n].text = candidate.text

RECURSIVE mergeCandidates(_, _)
\* for (const candidate of candidates) { if (!exists) target.candidates.push(candidate) }
mergeCandidates(have, candidates) ==
    IF candidates = <<>> THEN have
    ELSE mergeCandidates(
             IF alreadyCandidate(have, Head(candidates)) THEN have
             ELSE Append(have, Head(candidates)),
             Tail(candidates))

enqueueConflict(queue, conflictType, description, candidates) ==
    LET nextQueue == copyQueue(queue)
        found == { k \in 1..Len(nextQueue) :
                     /\ nextQueue[k].conflict_type = conflictType
                     /\ nextQueue[k].description = description }
        withTarget ==
            IF found = {}
            THEN Append(nextQueue, [ conflict_type |-> conflictType,
                                     description |-> description,
                                     candidates |-> <<>> ])
            ELSE nextQueue
        target == IF found = {} THEN Len(withTarget) ELSE SetMin(found)
    IN  [withTarget EXCEPT ![target].candidates = mergeCandidates(@, candidates)]

\* mutant: only the owner_conflict entries count
filterConfirmedTasks_ownerOnly(taskList, queue) ==
    LET conflicted == { queue[k].description :
                          k \in { n \in 1..Len(queue) :
                                    queue[n].conflict_type = "owner_conflict" } }
    IN  SelectSeq(taskList, LAMBDA task : task.description \notin conflicted)

filterConfirmedTasks(taskList, queue) ==
    LET conflicted == { queue[k].description : k \in 1..Len(queue) }
    IN  SelectSeq(taskList, LAMBDA task : task.description \notin conflicted)

MaxEnqueues == 2    \* calls of enqueueConflict on a queue that starts empty

ConflictTypes == {"owner_conflict", "date_conflict"}

\* two tasks of the same raw text that differ in owner, a third task of their
\* description, and a task of another description
QueueTasks ==
    { [text |-> <<"Zhang3", "ZAI", D1, "QIAN_WANCHENG", "contract">>,
       description |-> <<"contract">>, owner |-> "Zhang3", due_at |-> D1],
      [text |-> <<"Zhang3", "ZAI", D1, "QIAN_WANCHENG", "contract">>,
       description |-> <<"contract">>, owner |-> "Bob", due_at |-> D1],
      [text |-> <<"Bob", "BY", D1, "contract">>,
       description |-> <<"contract">>, owner |-> "Bob", due_at |-> D1],
      [text |-> <<"Wang5", "ZAI", D1, "QIAN_WANCHENG", "budget">>,
       description |-> <<"budget">>, owner |-> "Wang5", due_at |-> D1] }

QueueDescriptions == { t.description : t \in QueueTasks }

CandidateLists == UNION { [1..n -> QueueTasks] : n \in 1..2 }

\* the variables of the workflow, at rest while a library function is called
WorkflowAtRest ==
    /\ calls = <<>>
    /\ payload = Undefined
    /\ todo = <<>>
    /\ pc = "lib"
    /\ EngineInit

InitQueue ==
    /\ lib = [queue |-> <<>>, args |-> <<>>, enqueued |-> 0]
    /\ WorkflowAtRest

\* queue = enqueueConflict(queue, conflictType, description, candidates)
EnqueueConflict ==
    /\ lib.enqueued < MaxEnqueues
    /\ \E conflictType \in ConflictTypes, description \in QueueDescriptions,
          candidates \in CandidateLists :
          lib' = [ queue |-> enqueueConflict(lib.queue, conflictType, description, candidates),
                   args |-> <<conflictType, description, candidates>>,
                   enqueued |-> lib.enqueued + 1 ]
    /\ UNCHANGED <<calls, payload, todo, pc, chunks, extracted, beforeDecisions, beforeTasks,
                   engine, incrementalUpdates, result>>

SpecQueue == InitQueue /\ [][EnqueueConflict]_vars

\* the same calls made on the workflow's queue, in place, and on the library's queue
InitUpsert ==
    /\ lib = [pending |-> <<>>, queue |-> <<>>, args |-> <<>>, enqueued |-> 0]
    /\ WorkflowAtRest

\* upsertPendingConfirmation(pending, ...) next to queue = enqueueConflict(queue, ...)
UpsertAndEnqueue ==
    /\ lib.enqueued < MaxEnqueues
    /\ \E conflictType \in ConflictTypes, description \in QueueDescriptions,
          candidates \in CandidateLists :
          lib' = [ pending |-> upsertPendingConfirmation(lib.pending, conflictType,
                                                         description, candidates),
                   queue |-> enqueueConflict(lib.queue, conflictType, description, candidates),
                   args |-> <<conflictType, description, candidates>>,
                   enqueued |-> lib.enqueued + 1 ]
    /\ UNCHANGED <<calls, payload, todo, pc, chunks, extracted, beforeDecisions, beforeTasks,
                   engine, incrementalUpdates, result>>

SpecUpsert == InitUpsert /\ [][UpsertAndEnqueue]_vars

\* enqueueConflict on objects with identity.  The store h holds the arrays of entries
\* (queues), the entry objects (entries) and the arrays of candidates (lists); a
\* reference is the position of an object in its part of the store.

\* mutant: the copy of an entry shares the candidates array of the original
copyEntry_shallow(h, entryRef) ==
    LET item == h.entries[entryRef]
    IN  [h EXCEPT !.entries = Append(@, [ conflict_type |-> item.conflict_type,
                                          description |-> item.description,
                                          candidates |-> item.candidates ])]

\* item => ({ ...item, candidates: [...item.candidates] }): a new entry object and a
\* new candidates array, allocated at the end of the store
copyEntry(h, entryRef) ==
    LET item == h.entries[entryRef]
        withList == [h EXCEPT !.lists = Append(@, h.lists[item.candidates])]
    IN  [withList EXCEPT !.entries = Append(@, [ conflict_type |-> item.conflict_type,
                                                 description |-> item.description,
                                                 candidates |-> Len(withList.lists) ])]

RECURSIVE copyEntries(_, _, _)
\* queue.map(...): the store after the copies, and the references of the copies
copyEntries(h, entryRefs, copies) ==
    IF entryRefs = <<>> THEN [store |-> h, refs |-> copies]
    ELSE LET after == copyEntry(h, Head(entryRefs))
         IN  copyEntries(after, Tail(entryRefs), Append(copies, Len(after.entries)))

\* the store after enqueueConflict(queue, ...), and the reference it returns
enqueueConflictOnStore(h, queueRef, conflictType, description, candidates) ==
    LET mapped == copyEntries(h, h.queues[queueRef], <<>>)
        withQueue == [mapped.store EXCEPT !.queues = Append(@, mapped.refs)]
        nextQueue == Len(withQueue.queues)
        found == { k \in 1..Len(mapped.refs) :
                     /\ withQueue.entries[mapped.refs[k]].conflict_type = conflictType
                     /\ withQueue.entries[mapped.refs[k]].description = description }
        withTarget ==
            IF found = {}
            THEN LET withList == [withQueue EXCEPT !.lists = Append(@, <<>>)]
                     withEntry ==
                         [withList EXCEPT
                            !.entries = Append(@, [ conflict_type |-> conflictType,
                                                    description |-> description,
                                                    candidates |-> Len(withList.lists) ])]
                 IN  [withEntry EXCEPT
                        !.queues[nextQueue] = Append(@, Len(withEntry.entries))]
            ELSE withQueue
        target == IF found = {} THEN Len(withTarget.entries) ELSE mapped.refs[SetMin(found)]
        targetList == withTarget.entries[target].candidates
    IN  [ store |-> [withTarget EXCEPT !.lists[targetList] = mergeCandidates(@, candidates)],
          ref |-> nextQueue ]

\* the value of the queue behind a reference: its entries with their candidates
queueValue(h, queueRef) ==
    [ k \in 1..Len(h.queues[queueRef]) |->
        LET item == h.entries[h.queues[queueRef][k]]
        IN  [ conflict_type |-> item.conflict_type,
              description |-> item.description,
              candidates |-> h.lists[item.candidates] ] ]

\* const queue = [] ; no call made yet
InitStore ==
    /\ lib = [ store |-> [queues |-> << <<>> >>, entries |-> <<>>, lists |-> <<>>],
               queue |-> 1,
               inputs |-> <<>>,
               args |-> <<>>,
               enqueued |-> 0 ]
    /\ WorkflowAtRest

\* next = enqueueConflict(queue, ...): the caller keeps the input queue and what it
\* held before the call, and goes on with the returned queue
EnqueueOnStore ==
    /\ lib.enqueued < MaxEnqueues
    /\ \E conflictType \in ConflictTypes, description \in QueueDescriptions,
          candidates \in CandidateLists :
          LET call == enqueueConflictOnStore(lib.store, lib.queue, conflictType,
                                             description, candidates)
          IN  lib' = [ store |-> call.store,
                       queue |-> call.ref,
                       inputs |-> Append(lib.inputs,
                                         [ ref |-> lib.queue,
                                           held |-> queueValue(lib.store, lib.queue) ]),
                       args |-> <<conflictType, description, candidates>>,
                       enqueued |-> lib.enqueued + 1 ]
    /\ UNCHANGED <<calls, payload, todo, pc, chunks, extracted, beforeDecisions, beforeTasks,
                   engine, incrementalUpdates, result>>

SpecStore == InitStore /\ [][EnqueueOnStore]_vars

MaxFilterTasks == 3    \* length of the task list given to filterConfirmedTasks

TaskLists == UNION { [1..n -> QueueTasks] : n \in 0..MaxFilterTasks }

\* the queues that one or two enqueueConflict calls build
FilterQueues ==
    LET once == { enqueueConflict(<<>>, conflictType, description, candidates) :
                    conflictType \in ConflictTypes, description \in QueueDescriptions,
                    candidates \in CandidateLists }
        twice == { enqueueConflict(queue, conflictType, candidate.description, <<candidate>>) :
                     queue \in once, conflictType \in ConflictTypes,
                     candidate \in QueueTasks }
    IN  {<<>>} \cup once \cup twice

InitFilter ==
    /\ \E queue \in FilterQueues :
          lib = [queue |-> queue, tasks |-> <<>>, confirmed |-> <<>>, filtered |-> FALSE]
    /\ WorkflowAtRest

\* confirmed = filterConfirmedTasks(tasks, queue), called once on the queue
FilterConfirmedTasks ==
    /\ ~lib.filtered
    /\ \E taskList \in TaskLists :
          lib' = [lib EXCEPT !.tasks = taskList,
                             !.confirmed = filterConfirmedTasks(taskList, lib.queue),
                             !.filtered = TRUE]
    /\ UNCHANGED <<calls, payload, todo, pc, chunks, extracted, beforeDecisions, beforeTasks,
                   engine, incrementalUpdates, result>>

SpecFilter == InitFilter /\ [][FilterConfirmedTasks]_vars

-----------------------------------------------------------------------------
(* Vocabulary of the properties *)

\* the step about to be taken processes the task line CurTask
AtTaskLine == pc = "loop" /\ extracted.decisions = <<>> /\ extracted.tasks # <<>>

CurTask == Head(extracted.tasks)

\* two tasks disagree on an attribute: present on both sides and unequal
DisagreeOwner(a, b) == a.owner # NoValue /\ b.owner # NoValue /\ a.owner # b.owner

DisagreeDate(a, b) == a.due_at # NoValue /\ b.due_at # NoValue /\ a.due_at # b.due_at

Disagree(a, b) == DisagreeOwner(a, b) \/ DisagreeDate(a, b)

\* positions of the confirmed tasks of a description
ConfirmedAt(list, description) == { i \in 1..Len(list) : list[i].description = description }

InSeq(x, s) == \E i \in 1..Len(s) : s[i] = x

IsPrefix(s, t) == Len(s) <= Len(t) /\ \A i \in 1..Len(s) : s[i] = t[i]

NoRepeat(s) == \A i, j \in 1..Len(s) : s[i] = s[j] => i = j

\* the raw texts of the task lines of a chunk
ChunkTaskTexts(chunk) ==
    LET ts == extractMeetingSignals(chunk).tasks
    IN  { ts[i].text : i \in 1..Len(ts) }

\* a task whose line is new in the current chunk: in no earlier chunk
NewInCurrentChunk(text) ==
    /\ chunks # <<>>
    /\ text \in ChunkTaskTexts(chunks[Len(chunks)])
    /\ \A j \in 1..(Len(chunks) - 1) : text \notin ChunkTaskTexts(chunks[j])

\* a task whose line came in an earlier chunk and is not in the current one
FromEarlierChunk(text) ==
    /\ chunks # <<>>
    /\ text \notin ChunkTaskTexts(chunks[Len(chunks)])
    /\ \E j \in 1..(Len(chunks) - 1) : text \in ChunkTaskTexts(chunks[j])

-----------------------------------------------------------------------------
(* C1 *)

\* C1: after every processed task line, the confirmed task list holds at most one
\* task per distinct description.
C1_OneConfirmedPerDescription ==
    \A i, j \in 1..Len(tasks) : tasks[i].description = tasks[j].description => i = j

\* a second raw text of a confirmed description has been processed, next to another
\* confirmed description
C1_Witness ==
    /\ Len(tasks) >= 2
    /\ \E text \in seenTask : \E i \in 1..Len(tasks) :
          /\ tasks[i].description = MeetingTask(text).description
          /\ tasks[i].text # text

-----------------------------------------------------------------------------
(* C2 *)

\* C2: retroactive eviction.  When an unseen task arrives whose description is that of
\* a confirmed task and which disagrees with it on owner or on due date, then right
\* after the step no confirmed task has that description, the description is marked
\* conflicted, and the evicted and the new task are both candidates of a pending entry
\* of that description.
C2_RetroactiveEviction ==
    [][ \A i \in 1..Len(tasks) :
          ( /\ AtTaskLine
            /\ CurTask.text \notin seenTask
            /\ tasks[i].description = CurTask.description
            /\ Disagree(tasks[i], CurTask) )
          => /\ ConfirmedAt(tasks', CurTask.description) = {}
             /\ CurTask.description \in conflictedDescriptions'
             /\ \E k \in 1..Len(pendingConfirmations') :
                   /\ pendingConfirmations'[k].description = CurTask.description
                   /\ InSeq(tasks[i], pendingConfirmations'[k].candidates)
                   /\ InSeq(CurTask, pendingConfirmations'[k].candidates) ]_vars

\* an eviction has just happened whose victim was confirmed in an earlier chunk
C2_Witness ==
    /\ pc = "loop"
    /\ Len(chunks) >= 2
    /\ \E k \in 1..Len(pendingConfirmations) :
          LET c == pendingConfirmations[k].candidates
          IN  /\ Len(c) = 2
              /\ FromEarlierChunk(c[1].text)
              /\ NewInCurrentChunk(c[2].text)
              /\ Disagree(c[1], c[2])
              /\ ConfirmedAt(tasks, c[1].description) = {}

-----------------------------------------------------------------------------
(* C3 *)

\* C3: sticky conflict.  A description never leaves the conflicted set, and no task of
\* a conflicted description is in the confirmed list, whatever arrives afterwards.
C3_StickyConflict ==
    /\ [](\A d \in conflictedDescriptions : ConfirmedAt(tasks, d) = {})
    /\ [][conflictedDescriptions \subseteq conflictedDescriptions']_vars

\* after the conflict a third task of the description arrived that agrees in owner and
\* due date with an existing candidate, and it was not confirmed
C3_Witness ==
    \E k \in 1..Len(pendingConfirmations) :
        LET e == pendingConfirmations[k]
        IN  /\ Len(e.candidates) >= 3
            /\ e.description \in conflictedDescriptions
            /\ \E i \in 1..2 :
                  /\ e.candidates[3].owner = e.candidates[i].owner
                  /\ e.candidates[3].due_at = e.candidates[i].due_at
            /\ ConfirmedAt(tasks, e.description) = {}

-----------------------------------------------------------------------------
(* C4 *)

\* the entries an eviction of `evicted` by `task` is to queue
C4_Expected(evicted, task) ==
    (IF DisagreeOwner(evicted, task)
     THEN << [conflict_type |-> "owner_conflict", description |-> task.description,
              candidates |-> <<evicted, task>>] >>
     ELSE <<>>)
    \o
    (IF DisagreeDate(evicted, task)
     THEN << [conflict_type |-> "date_conflict", description |-> task.description,
              candidates |-> <<evicted, task>>] >>
     ELSE <<>>)

\* C4: conflict typing at eviction.  When a new task evicts the confirmed task of its
\* description the queue gains, at its end, exactly one entry per differing attribute
\* (owner_conflict before date_conflict), each with candidates [evicted, new].
C4_ConflictTyping ==
    [][ \A i \in 1..Len(tasks) :
          ( /\ AtTaskLine
            /\ CurTask.text \notin seenTask
            /\ tasks[i].description = CurTask.description
            /\ Disagree(tasks[i], CurTask) )
          => pendingConfirmations' =
                 pendingConfirmations \o C4_Expected(tasks[i], CurTask) ]_vars

\* an eviction on both attributes: the queue ends with the owner entry, then the date
\* entry, of the same two candidates
C4_Witness ==
    /\ Len(pendingConfirmations) >= 2
    /\ LET n == Len(pendingConfirmations)
           o == pendingConfirmations[n - 1]
           d == pendingConfirmations[n]
       IN  /\ o.conflict_type = "owner_conflict"
           /\ d.conflict_type = "date_conflict"
           /\ o.description = d.description
           /\ Len(o.candidates) = 2
           /\ o.candidates = d.candidates
           /\ DisagreeOwner(o.candidates[1], o.candidates[2])
           /\ DisagreeDate(o.candidates[1], o.candidates[2])

-----------------------------------------------------------------------------
(* C5 *)

\* C5: no-difference discard.  When an unseen task has the description of a confirmed
\* task and does not disagree with it (each attribute missing on a side or equal), the
\* confirmed list, the pending queue and the conflicted set are unchanged, and the
\* confirmed list keeps exactly one entry of that description.
C5_NoDifferenceDiscard ==
    [][ \A i \in 1..Len(tasks) :
          ( /\ AtTaskLine
            /\ CurTask.text \notin seenTask
            /\ tasks[i].description = CurTask.description
            /\ ~Disagree(tasks[i], CurTask) )
          => /\ UNCHANGED <<tasks, pendingConfirmations, conflictedDescriptions>>
             /\ ConfirmedAt(tasks', CurTask.description) = {i} ]_vars

\* a task with an owner was discarded against a confirmed task of its description
\* that has none
C5_Witness ==
    \E text \in seenTask : \E i \in 1..Len(tasks) :
        /\ tasks[i].description = MeetingTask(text).description
        /\ tasks[i].text # text
        /\ tasks[i].owner = NoValue
        /\ MeetingTask(text).owner # NoValue
        /\ pendingConfirmations = <<>>

-----------------------------------------------------------------------------
(* C6 *)

\* C6: whenever two tasks of distinct raw text and the same description occurred in
\* the run (every raw text that occurred is in seenTask) and disagree on owner or on
\* due date, at the end of the run the description has a pending entry and no
\* confirmed task.
C6_AnyDisagreementConflicts ==
    pc = "done" =>
        \A t1, t2 \in seenTask :
            LET a == MeetingTask(t1)
                b == MeetingTask(t2)
            IN  (t1 # t2 /\ a.description = b.description /\ Disagree(a, b))
                => /\ \E k \in 1..Len(result.pending_confirmations) :
                         result.pending_confirmations[k].description = a.description
                   /\ ConfirmedAt(result.tasks, a.description) = {}

-----------------------------------------------------------------------------
(* C7 *)

\* where in the consumed chunks the task line of a raw text stands
TaskOccurrences(text) ==
    UNION { { <<j, i>> : i \in { n \in 1..Len(chunks[j]) :
                                   /\ taskMatch(chunks[j][n])
                                   /\ Drop(chunks[j][n], 2) = text } }
            : j \in 1..Len(chunks) }

\* C7: a task line whose raw text was seen earlier in the run changes neither the
\* decisions, nor the confirmed tasks, nor the pending queue, nor the conflicted set.
C7_SeenTaskChangesNothing ==
    [][ (AtTaskLine /\ CurTask.text \in seenTask)
        => UNCHANGED <<decisions, tasks, pendingConfirmations, conflictedDescriptions>>
      ]_vars

\* the run has consumed twice the line of a task that was evicted, and the evicted
\* task is a candidate once
C7_Witness ==
    /\ pc = "idle"
    /\ \E k \in 1..Len(pendingConfirmations) :
          LET c == pendingConfirmations[k].candidates
          IN  /\ Cardinality(TaskOccurrences(c[1].text)) = 2
              /\ Len(c) = 2

-----------------------------------------------------------------------------
(* C8 *)

\* the chunk being processed is identical to an earlier chunk of the stream
Replayed ==
    /\ pc = "loop"
    /\ \E j \in 1..(Len(chunks) - 1) : chunks[j] = chunks[Len(chunks)]

\* C8: chunk replay is idempotent.  While a chunk identical to an earlier one is
\* processed, no step changes the decisions, the confirmed tasks or the pending queue,
\* and the update recorded for it has decisions_added = 0 and tasks_added = 0.
C8_ChunkReplayIdempotent ==
    [][ Replayed =>
          /\ UNCHANGED <<decisions, tasks, pendingConfirmations>>
          /\ incrementalUpdates' # incrementalUpdates =>
                /\ Len(incrementalUpdates') = Len(incrementalUpdates) + 1
                /\ incrementalUpdates'[Len(incrementalUpdates')].decisions_added = 0
                /\ incrementalUpdates'[Len(incrementalUpdates')].tasks_added = 0 ]_vars

\* a non-adjacent replay has been recorded: the third chunk repeats the first, not
\* the second, and the first had confirmed a task
C8_Witness ==
    /\ pc = "idle"
    /\ Len(chunks) = 3
    /\ Len(incrementalUpdates) = 3
    /\ chunks[3] = chunks[1]
    /\ chunks[3] # chunks[2]
    /\ incrementalUpdates[1].tasks_added = 1
    /\ incrementalUpdates[3].tasks_added = 0

-----------------------------------------------------------------------------
(* C9 *)

RECURSIVE FirstSeen(_)
\* a sequence without its repeats, first occurrences kept in order
FirstSeen(s) ==
    IF s = <<>> THEN <<>>
    ELSE LET front == FirstSeen(SubSeq(s, 1, Len(s) - 1))
             last == s[Len(s)]
         IN  IF InSeq(last, front) THEN front ELSE Append(front, last)

\* the set of the elements of a sequence
Range(s) == { s[i] : i \in 1..Len(s) }

RECURSIVE Concat(_)
\* a sequence of sequences, joined
Concat(ss) == IF ss = <<>> THEN <<>> ELSE Head(ss) \o Concat(Tail(ss))

\* the decision strings of the lines of a chunk, in order
ChunkDecisions(chunk) ==
    LET ds == SelectSeq(chunk, decisionMatch)
    IN  [ i \in 1..Len(ds) |-> Drop(ds[i], 2) ]

\* C9: the decisions output holds no string twice and lists the decisions in order of
\* first appearance; decisions_added of a chunk counts the decision strings that
\* appear in it for the first time.
C9_DecisionsUniqueFirstSeen ==
    LET perChunk == [ k \in 1..Len(chunks) |-> ChunkDecisions(chunks[k]) ]
        all == Concat(perChunk)
        iterated == SubSeq(all, 1, Len(all) - Len(extracted.decisions))
    IN  /\ NoRepeat(decisions)
        /\ decisions = FirstSeen(iterated)
        /\ \A k \in 1..Len(incrementalUpdates) :
              incrementalUpdates[k].decisions_added =
                  Cardinality(Range(perChunk[k])
                              \ UNION { Range(perChunk[j]) : j \in 1..(k - 1) })

\* two decisions were listed, and a later chunk repeated one of them and added none
C9_Witness ==
    /\ pc = "idle"
    /\ Len(decisions) = 2
    /\ \E k \in 2..Len(incrementalUpdates) :
          /\ incrementalUpdates[k].decisions_added = 0
          /\ ChunkDecisions(chunks[k]) # <<>>
          /\ incrementalUpdates[1].decisions_added = 1

-----------------------------------------------------------------------------
(* C10 *)

\* the raw texts of a candidate list, in order
CandidateTexts(candidates) == [ i \in 1..Len(candidates) |-> candidates[i].text ]

\* C10: no pending entry ever holds two candidates of the same raw text, and the
\* candidates stay in insertion order: a step leaves every entry in place and the
\* candidates it had as a prefix of the candidates it has afterwards.
C10_CandidatesUniqueInOrder ==
    /\ [](\A k \in 1..Len(pendingConfirmations) :
             NoRepeat(CandidateTexts(pendingConfirmations[k].candidates)))
    /\ [][ \A k \in 1..Len(pendingConfirmations) :
             /\ k <= Len(pendingConfirmations')
             /\ IsPrefix(pendingConfirmations[k].candidates,
                         pendingConfirmations'[k].candidates) ]_vars

\* an entry has got a candidate after its creation
C10_Witness ==
    \E k \in 1..Len(pendingConfirmations) :
        /\ Len(pendingConfirmations[k].candidates) = 3
        /\ NoRepeat(CandidateTexts(pendingConfirmations[k].candidates))


-----------------------------------------------------------------------------
(* C11 *)

\* C11: when a task with a not-yet-seen raw text arrives for a description that is
\* already conflicted, the step appends it as the last candidate of every pending
\* entry of that description, whatever its owner and due date, leaves every other
\* entry as it was, and leaves the confirmed task list unchanged.
C11_LateCandidateAppended ==
    [][ ( /\ AtTaskLine
          /\ CurTask.text \notin seenTask
          /\ CurTask.description \in conflictedDescriptions )
        => /\ tasks' = tasks
           /\ Len(pendingConfirmations') = Len(pendingConfirmations)
           /\ \A k \in 1..Len(pendingConfirmations) :
                 pendingConfirmations'[k] =
                     IF pendingConfirmations[k].description = CurTask.description
                     THEN [pendingConfirmations[k] EXCEPT
                              !.candidates = Append(@, CurTask)]
                     ELSE pendingConfirmations[k] ]_vars

\* a description has an owner_conflict and a date_conflict entry, and a later task of
\* the description, whose owner and due date each equal those of an earlier candidate,
\* is the last candidate of both
C11_Witness ==
    /\ Len(pendingConfirmations) = 2
    /\ pendingConfirmations[1].conflict_type # pendingConfirmations[2].conflict_type
    /\ \A k \in 1..2 :
          LET c == pendingConfirmations[k].candidates
          IN  /\ Len(c) = 3
              /\ c[3] = pendingConfirmations[1].candidates[3]
              /\ \E i \in 1..2 : c[i].owner = c[3].owner
              /\ \E i \in 1..2 : c[i].due_at = c[3].due_at

-----------------------------------------------------------------------------
(* C12 *)

\* C12: the pending queue is append-only.  No step removes or moves an entry (each
\* entry keeps its position, conflict type and description), and no step removes a
\* candidate from an entry.
C12_PendingAppendOnly ==
    [][ /\ Len(pendingConfirmations) <= Len(pendingConfirmations')
        /\ \A k \in 1..Len(pendingConfirmations) :
              /\ pendingConfirmations'[k].conflict_type =
                     pendingConfirmations[k].conflict_type
              /\ pendingConfirmations'[k].description =
                     pendingConfirmations[k].description
              /\ \A i \in 1..Len(pendingConfirmations[k].candidates) :
                     InSeq(pendingConfirmations[k].candidates[i],
                           pendingConfirmations'[k].candidates) ]_vars

\* the run is over with two entries that each got two later candidates after the
\* conflict was queued
C12_Witness ==
    /\ pc = "done"
    /\ Len(result.pending_confirmations) = 2
    /\ \A k \in 1..2 : Len(result.pending_confirmations[k].candidates) = 4

-----------------------------------------------------------------------------
(* C13 *)

\* the raw texts of the task lines of a chunk, in order
ChunkTaskLines(chunk) ==
    LET ts == SelectSeq(chunk, taskMatch)
    IN  [ i \in 1..Len(ts) |-> Drop(ts[i], 2) ]

\* the raw texts of the task lines the task loop has gone through, in order
ProcessedTaskTexts ==
    LET all == Concat([ k \in 1..Len(chunks) |-> ChunkTaskLines(chunks[k]) ])
    IN  SubSeq(all, 1, Len(all) - Len(extracted.tasks))

FirstIndex(s, x) == SetMin({ i \in 1..Len(s) : s[i] = x })

RemoveAt(s, i) == SubSeq(s, 1, i - 1) \o SubSeq(s, i + 1, Len(s))

\* C13: the confirmed task list is ordered by the time each task was confirmed, which
\* is the time its raw text was first processed; a step changes the list only by
\* appending one task at the end or by removing one task, the others keeping their
\* relative order.
C13_ConfirmedInConfirmationOrder ==
    /\ [](LET texts == ProcessedTaskTexts
          IN  \A i, j \in 1..Len(tasks) :
                 i < j => FirstIndex(texts, tasks[i].text) < FirstIndex(texts, tasks[j].text))
    /\ [][ \/ tasks' = tasks
           \/ /\ Len(tasks') = Len(tasks) + 1
              /\ SubSeq(tasks', 1, Len(tasks)) = tasks
           \/ \E i \in 1..Len(tasks) : tasks' = RemoveAt(tasks, i) ]_vars

\* a task was evicted that had been confirmed between two tasks that are still
\* confirmed, in that order
C13_Witness ==
    /\ Len(tasks) = 2
    /\ \E k \in 1..Len(pendingConfirmations) :
          LET texts == ProcessedTaskTexts
              evicted == pendingConfirmations[k].candidates[1].text
          IN  /\ FirstIndex(texts, tasks[1].text) < FirstIndex(texts, evicted)
              /\ FirstIndex(texts, evicted) < FirstIndex(texts, tasks[2].text)

-----------------------------------------------------------------------------
(* C14 *)

RECURSIVE SumOf(_, _)
\* the sum of the field f over the records of a sequence
SumOf(s, f) == IF s = <<>> THEN 0 ELSE Head(s)[f] + SumOf(Tail(s), f)

\* the totals of update i - 1, 0 before the first chunk
TotalBefore(updates, i, f) == IF i = 1 THEN 0 ELSE updates[i - 1][f]

\* C14: the totals of an update are the lengths of the decisions list and of the
\* confirmed task list after its chunk; decisions_added and tasks_added are the totals
\* minus the totals of the update before (0 for the first chunk), so tasks_added is the
\* net change of the list length; the sums of decisions_added and of tasks_added over
\* all updates are the final decision_count and task_count.
C14_UpdatesAreNetDeltas ==
    /\ \A i \in 1..Len(incrementalUpdates) :
          LET u == incrementalUpdates[i]
          IN  /\ u.decisions_added =
                     u.total_decisions - TotalBefore(incrementalUpdates, i, "total_decisions")
              /\ u.tasks_added =
                     u.total_tasks - TotalBefore(incrementalUpdates, i, "total_tasks")
    /\ (pc = "idle" /\ incrementalUpdates # <<>>)
          => LET last == incrementalUpdates[Len(incrementalUpdates)]
             IN  /\ last.total_decisions = Len(decisions)
                 /\ last.total_tasks = Len(tasks)
    /\ pc = "done"
          => /\ SumOf(result.incremental_updates, "decisions_added") = result.decision_count
             /\ SumOf(result.incremental_updates, "tasks_added") = result.task_count
             /\ result.decision_count = Len(result.decisions)
             /\ result.task_count = Len(result.tasks)

\* the second chunk evicted a task of the first chunk and confirmed a task of another
\* description: one confirmation and one eviction, tasks_added 0
C14_Witness ==
    /\ pc = "idle"
    /\ Len(incrementalUpdates) = 2
    /\ incrementalUpdates[2].tasks_added = 0
    /\ \E k \in 1..Len(pendingConfirmations) :
          FromEarlierChunk(pendingConfirmations[k].candidates[1].text)
    /\ \E i \in 1..Len(tasks) : NewInCurrentChunk(tasks[i].text)

-----------------------------------------------------------------------------
(* C15 *)

\* C15: in every incremental update decisions_added and tasks_added are non-negative,
\* and total_decisions and total_tasks never decrease from one update to the next.
C15_DeltasNonNegative ==
    \A i \in 1..Len(incrementalUpdates) :
       LET u == incrementalUpdates[i]
       IN  /\ u.decisions_added >= 0
           /\ u.tasks_added >= 0
           /\ u.total_decisions >= TotalBefore(incrementalUpdates, i, "total_decisions")
           /\ u.total_tasks >= TotalBefore(incrementalUpdates, i, "total_tasks")

\* the part of C15 about decisions: the decisions list only grows
C15_DecisionDeltasNonNegative ==
    \A i \in 1..Len(incrementalUpdates) :
       LET u == incrementalUpdates[i]
       IN  /\ u.decisions_added >= 0
           /\ u.total_decisions >= TotalBefore(incrementalUpdates, i, "total_decisions")

-----------------------------------------------------------------------------
(* C16 *)

\* a string without a non-blank character
IsBlank(text) == \A i \in 1..Len(text) : text[i] = <<>>

\* the transcript_stream of the payload is a non-empty array
StreamGiven == payload.transcript_stream.type = "array" /\ payload.transcript_stream.items # <<>>

\* the string a stream item carries: the item itself or its text property
CarriesText(item) ==
    \/ item.type = "string" /\ ~IsBlank(item.value)
    \/ item.type = "object" /\ item.text.type = "string" /\ ~IsBlank(item.text.value)

TextOf(item) == IF item.type = "string" THEN item.value ELSE item.text.value

\* the stream items that carry non-blank text, in arrival order
TextItems == SelectSeq(payload.transcript_stream.items, CarriesText)

RawTextGiven == payload.raw_text.type = "string" /\ ~IsBlank(payload.raw_text.value)

\* C16: incremental_updates has one entry per processed chunk, in arrival order, with
\* chunk_index 0, 1, 2, ... without gaps.  Blank and non-text stream items are dropped
\* before indexing: the k-th update is that of the k-th item with non-blank text.  A
\* non-blank raw_text without a stream gives exactly one update, of chunk_index 0.
C16_OneUpdatePerChunk ==
    /\ \A k \in 1..Len(incrementalUpdates) : incrementalUpdates[k].chunk_index = k - 1
    /\ Len(incrementalUpdates) = IF pc = "loop" THEN Len(chunks) - 1 ELSE Len(chunks)
    /\ (pc = "done" /\ StreamGiven)
          => /\ Len(result.incremental_updates) = Len(TextItems)
             /\ \A k \in 1..Len(TextItems) :
                   toLines(chunks[k]) = toLines(TextOf(TextItems[k]))
    /\ (pc = "done" /\ ~StreamGiven /\ RawTextGiven)
          => /\ Len(result.incremental_updates) = 1
             /\ result.incremental_updates[1].chunk_index = 0
             /\ toLines(chunks[1]) = toLines(payload.raw_text.value)

\* the run is over for a stream of a blank or non-text item followed by an item with
\* text: one update, of chunk_index 0
C16_Witness ==
    /\ pc = "done"
    /\ StreamGiven
    /\ Len(payload.transcript_stream.items) = 2
    /\ ~CarriesText(payload.transcript_stream.items[1])
    /\ CarriesText(payload.transcript_stream.items[2])
    /\ Len(result.incremental_updates) = 1
    /\ result.incremental_updates[1].chunk_index = 0

-----------------------------------------------------------------------------
(* C17 *)

\* C17: if the tasks of distinct raw text processed so far have pairwise distinct
\* descriptions, each of them is confirmed: the confirmed list is those tasks in order
\* of first appearance, the pending queue is empty, and at the end task_count is their
\* number.
C17_DistinctDescriptionsAllConfirmed ==
    LET all == ProcessedTaskTexts
    IN  (\A s, t \in Range(all) :
            extractTaskDescription(s) = extractTaskDescription(t) => s = t)
        => LET texts == FirstSeen(all)
               found == [ i \in 1..Len(texts) |-> MeetingTask(texts[i]) ]
           IN  /\ tasks = found
               /\ pendingConfirmations = <<>>
               /\ pc = "done"
                     => /\ result.tasks = found
                        /\ result.task_count = Len(found)
                        /\ result.pending_confirmations = <<>>

\* the run is over with three confirmed tasks of three descriptions, one of the task
\* lines having come twice
C17_Witness ==
    /\ pc = "done"
    /\ result.task_count = 3
    /\ Len(ProcessedTaskTexts) = 4
    /\ result.pending_confirmations = <<>>

-----------------------------------------------------------------------------
(* C18 *)

\* C18: the card has task_count equal to the full number of confirmed tasks given,
\* pending_count equal to the number of pending entries given, and min(8, task_count)
\* items; item k is rendered from task k, in order, with the id <meetingId>-task-<k>
\* (pairwise distinct) and the actions accept, ignore, reschedule.  In the result of
\* the workflow the card's counts are the result's task_count and the length of its
\* pending_confirmations.
C18_CardCountsAndItems ==
    pc = "done"
    => LET card == result.post_meeting_card
           shown == IF Len(tasks) < 8 THEN Len(tasks) ELSE 8
       IN  /\ card.task_count = Len(tasks)
           /\ card.pending_count = Len(pendingConfirmations)
           /\ DOMAIN card.items = 1..shown
           /\ \A k \in 1..shown :
                 /\ card.items[k].recommendation_id = <<card.meeting_id, "task", k>>
                 /\ card.items[k].title =
                        IF tasks[k].description = <<>> THEN tasks[k].text
                        ELSE tasks[k].description
                 /\ card.items[k].owner = tasks[k].owner
                 /\ card.items[k].due_at = tasks[k].due_at
                 /\ card.items[k].actions = <<"accept", "ignore", "reschedule">>
           /\ \A j, k \in 1..shown :
                 card.items[j].recommendation_id = card.items[k].recommendation_id => j = k
           /\ result.status = "success"
                 => /\ card.meeting_id = result.meeting_id
                    /\ card.task_count = result.task_count
                    /\ card.pending_count = Len(result.pending_confirmations)

\* a card was built from nine tasks and two pending entries: eight items, task_count
\* nine, and among the items one whose title is the raw text of its task
C18_Witness ==
    /\ pc = "done"
    /\ result.post_meeting_card.task_count = 9
    /\ result.post_meeting_card.pending_count = 2
    /\ DOMAIN result.post_meeting_card.items = 1..8
    /\ \E k \in 1..8 : result.post_meeting_card.items[k].title = tasks[k].text

-----------------------------------------------------------------------------
(* C19 *)

\* no string of the payload that the engine could read holds a non-blank character
NoTextGiven ==
    /\ ~RawTextGiven
    /\ payload.transcript_stream.type = "array"
          => \A i \in 1..Len(payload.transcript_stream.items) :
                ~CarriesText(payload.transcript_stream.items[i])

\* C19: the engine is total.  Whatever the payload, the run goes on until it returns,
\* and it returns status success with an empty errors list; when the payload supplies
\* no non-blank transcript text, decisions, tasks, pending_confirmations,
\* incremental_updates and the card's items are empty and both counts are 0.
C19_TotalAndEmptyWithoutText ==
    /\ pc # "done" => ENABLED NextPayload
    /\ pc = "done"
          => /\ result.status = "success"
             /\ result.errors = <<>>
             /\ NoTextGiven
                   => /\ result.decisions = <<>>
                      /\ result.tasks = <<>>
                      /\ result.pending_confirmations = <<>>
                      /\ result.incremental_updates = <<>>
                      /\ result.post_meeting_card.items = <<>>
                      /\ result.decision_count = 0
                      /\ result.task_count = 0

\* the run has returned for a payload whose raw_text is blank and whose stream holds
\* a blank string and an item that is not text
C19_Witness ==
    /\ pc = "done"
    /\ payload.raw_text.type = "string"
    /\ IsBlank(payload.raw_text.value)
    /\ payload.transcript_stream.type = "array"
    /\ \E i, j \in 1..Len(payload.transcript_stream.items) :
          /\ payload.transcript_stream.items[i].type = "string"
          /\ payload.transcript_stream.items[j].type \notin {"string", "object"}
    /\ NoTextGiven
    /\ result.status = "success"

-----------------------------------------------------------------------------
(* C20 *)

\* the lines of the stream items that carry text, in arrival order
StreamLines ==
    Concat([ k \in 1..Len(TextItems) |-> toLines(TextOf(TextItems[k])) ])

\* C20: stream precedence.  When transcript_stream is a non-empty array, source_type is
\* transcript_stream and the chunks the engine consumes, hence its result, come from
\* the stream items alone: raw_text adds nothing, also when no item carries text.
\* Otherwise (transcript_stream absent, not an array, or an empty array) source_type is
\* text and the only chunk is the raw_text, if it is a non-blank string.
C20_StreamPrecedence ==
    pc = "done"
    => IF StreamGiven
       THEN /\ result.source_type = "transcript_stream"
            /\ Len(chunks) = Len(TextItems)
            /\ \A k \in 1..Len(TextItems) :
                  toLines(chunks[k]) = toLines(TextOf(TextItems[k]))
            /\ toLines(result.transcript_text) = StreamLines
            /\ TextItems = <<>>
                  => /\ result.decisions = <<>>
                     /\ result.tasks = <<>>
                     /\ result.pending_confirmations = <<>>
                     /\ result.incremental_updates = <<>>
       ELSE /\ result.source_type = "text"
            /\ Len(chunks) = IF RawTextGiven THEN 1 ELSE 0
            /\ RawTextGiven
                  => /\ toLines(chunks[1]) = toLines(payload.raw_text.value)
                     /\ toLines(result.transcript_text) = toLines(payload.raw_text.value)

\* the run has returned for a stream of two items without text next to a raw_text
\* with two task lines: no task, no decision
C20_Witness ==
    /\ pc = "done"
    /\ StreamGiven
    /\ Len(payload.transcript_stream.items) = 2
    /\ TextItems = <<>>
    /\ payload.raw_text = Str(TwoTaskText)
    /\ result.source_type = "transcript_stream"
    /\ result.task_count = 0

-----------------------------------------------------------------------------
(* C21 *)

\* the local state of the single run, as a record
Local ==
    [ payload |-> payload,
      todo |-> todo,
      pc |-> pc,
      chunks |-> chunks,
      extracted |-> extracted,
      beforeDecisions |-> beforeDecisions,
      beforeTasks |-> beforeTasks,
      seenDecision |-> seenDecision,
      seenTask |-> seenTask,
      conflictedDescriptions |-> conflictedDescriptions,
      decisions |-> decisions,
      tasks |-> tasks,
      confirmedTaskByDescription |-> confirmedTaskByDescription,
      pendingConfirmations |-> pendingConfirmations,
      incrementalUpdates |-> incrementalUpdates,
      result |-> result ]

\* C21: determinism.  Every step of a run is a function of the run's local state
\* alone, and two invocations with the same payload that have returned hold equal
\* results (decisions, tasks, pending_confirmations, incremental_updates, card),
\* whatever other invocations ran before or between them.
C21_Deterministic ==
    /\ [][calls' = calls => Local' = runStep(Local)]_vars
    /\ [](\A i, j \in DOMAIN calls :
            ( /\ calls[i].pc = "done"
              /\ calls[j].pc = "done"
              /\ calls[i].payload = calls[j].payload )
            => calls[i].result = calls[j].result)

\* two invocations with the same payload have returned a result with a conflict, and a
\* third one, with the chunks in the other order, is in the middle of its task loop
C21_Witness ==
    /\ Len(calls) >= 3
    /\ \E i, j, k \in DOMAIN calls :
          /\ i # j
          /\ calls[i].pc = "done"
          /\ calls[j].pc = "done"
          /\ calls[i].payload = calls[j].payload
          /\ calls[i].result.pending_confirmations # <<>>
          /\ calls[k].payload.transcript_stream # calls[i].payload.transcript_stream
          /\ calls[k].pc = "loop"
          /\ calls[k].seenTask # {}

-----------------------------------------------------------------------------
(* C22 *)

RECURSIVE RunAlone(_)
\* the final local state of an invocation that runs from s with no other step between
RunAlone(s) == IF s.pc = "done" THEN s ELSE RunAlone(runStep(s))

\* C22: isolation.  While several invocations are in progress with their steps
\* interleaved in any order, a step changes the local state of one invocation only,
\* as that invocation's own next step, and the result an invocation returns is the
\* result of the run it makes alone from its payload.
C22_Isolated ==
    /\ [][ \A i \in DOMAIN calls :
             calls'[i] = calls[i] \/ calls'[i] = runStep(calls[i]) ]_vars
    /\ [](\A i \in DOMAIN calls :
            calls[i].pc = "done"
            => calls[i].result = RunAlone(newCall(calls[i].payload)).result)

\* two invocations for different meetings are both in the task loop of their second
\* chunk, one of them with a queued conflict and the other with a confirmed task
C22_Witness ==
    \E i, j \in DOMAIN calls :
       /\ calls[i].payload.meeting_id # calls[j].payload.meeting_id
       /\ calls[i].pc = "loop"
       /\ calls[j].pc = "loop"
       /\ Len(calls[i].chunks) = 2
       /\ Len(calls[j].chunks) = 2
       /\ calls[i].pendingConfirmations # <<>>
       /\ calls[j].tasks # <<>>


-----------------------------------------------------------------------------
(* C23 *)

\* the raw texts of the tasks of a list
TextsOf(list) == { list[k].text : k \in 1..Len(list) }

\* C23: chunk order is load-bearing.  The runs of the chunk lists <<A, B>> and <<B, A>>,
\* A a task without owner and date and B two tasks of the same description with
\* different owners, end differently: the confirmed tasks differ, the conflicted
\* descriptions differ and the pending queues differ.
C23_ChunkOrderMatters ==
    \A i, j \in DOMAIN calls :
       ( /\ calls[i].pc = "done"
         /\ calls[j].pc = "done"
         /\ calls[i].payload.transcript_stream = Arr(ForwardStream)
         /\ calls[j].payload.transcript_stream = Arr(BackwardStream) )
       => /\ TextsOf(calls[i].result.tasks) # TextsOf(calls[j].result.tasks)
          /\ calls[i].conflictedDescriptions # calls[j].conflictedDescriptions
          /\ calls[i].result.pending_confirmations # calls[j].result.pending_confirmations

\* both orders have been run to the end: one confirms the task without owner, the
\* other confirms nothing and queues an owner conflict with three candidates
C23_Witness ==
    \E i, j \in DOMAIN calls :
       /\ calls[i].pc = "done"
       /\ calls[j].pc = "done"
       /\ calls[i].payload.transcript_stream = Arr(ForwardStream)
       /\ calls[j].payload.transcript_stream = Arr(BackwardStream)
       /\ Len(calls[i].result.tasks) = 1
       /\ calls[i].result.pending_confirmations = <<>>
       /\ calls[j].result.tasks = <<>>
       /\ Len(calls[j].result.pending_confirmations) = 1
       /\ Len(calls[j].result.pending_confirmations[1].candidates) = 3

-----------------------------------------------------------------------------
(* C24 *)

\* every text of the candidate list is the text of a candidate of the entry
AllPresent(entry, candidates) ==
    \A n \in 1..Len(candidates) :
       \E m \in 1..Len(entry.candidates) : entry.candidates[m].text = candidates[n].text

\* C24: a queue built by enqueueConflict calls has at most one entry per pair of
\* conflict type and description, and no entry has two candidates of the same text;
\* enqueueing candidates whose texts are all present in the entry leaves the queue as
\* it is, so the call just made, made again, returns the same queue.
C24_EnqueueMergesWithoutDuplicates ==
    LET queue == lib.queue
    IN  /\ \A j, k \in 1..Len(queue) :
              ( /\ queue[j].conflict_type = queue[k].conflict_type
                /\ queue[j].description = queue[k].description ) => j = k
        /\ \A k \in 1..Len(queue) : \A m, n \in 1..Len(queue[k].candidates) :
              queue[k].candidates[m].text = queue[k].candidates[n].text => m = n
        /\ \A k \in 1..Len(queue) : \A candidates \in CandidateLists :
              AllPresent(queue[k], candidates)
              => enqueueConflict(queue, queue[k].conflict_type, queue[k].description,
                                 candidates) = queue
        /\ lib.args # <<>>
              => enqueueConflict(queue, lib.args[1], lib.args[2], lib.args[3]) = queue

\* the second call offered, for an entry that holds one candidate, another record of
\* the same text: the entry still holds the first record only
C24_Witness ==
    /\ lib.enqueued = 2
    /\ Len(lib.queue) = 1
    /\ Len(lib.queue[1].candidates) = 1
    /\ Len(lib.args[3]) = 1
    /\ lib.args[3][1].text = lib.queue[1].candidates[1].text
    /\ lib.args[3][1] # lib.queue[1].candidates[1]

-----------------------------------------------------------------------------
(* C25 *)

\* the positions of the task list whose description is no entry's description
KeptPositions(taskList, queue) ==
    { n \in 1..Len(taskList) :
        \A k \in 1..Len(queue) : queue[k].description # taskList[n].description }

\* the m-th smallest member of a set of positions
NthOf(positions, m) ==
    CHOOSE n \in positions : Cardinality({ x \in positions : x < n }) = m - 1

\* C25: filterConfirmedTasks returns the tasks whose description is not the description
\* of any queue entry, of whichever conflict type, each as often as it occurs and in
\* the order of the task list.
C25_FilterKeepsUnqueuedInOrder ==
    lib.filtered =>
        LET kept == KeptPositions(lib.tasks, lib.queue)
        IN  /\ Len(lib.confirmed) = Cardinality(kept)
            /\ \A m \in 1..Len(lib.confirmed) :
                  lib.confirmed[m] = lib.tasks[NthOf(kept, m)]

\* a date_conflict entry alone removed the middle one of three tasks
C25_Witness ==
    /\ lib.filtered
    /\ Len(lib.queue) = 1
    /\ lib.queue[1].conflict_type = "date_conflict"
    /\ Len(lib.tasks) = 3
    /\ lib.tasks[2].description = lib.queue[1].description
    /\ lib.confirmed = <<lib.tasks[1], lib.tasks[3]>>
    /\ lib.tasks[1] # lib.tasks[3]

-----------------------------------------------------------------------------
(* C26 *)

\* every task the run has kept: the confirmed ones and the candidates
KeptTasks ==
    Range(tasks) \cup UNION { Range(pendingConfirmations[k].candidates) :
                                k \in 1..Len(pendingConfirmations) }

\* C26: a task has an owner exactly when a leading owner and date prefix was stripped
\* from its raw text to form its description; with nothing stripped the description
\* is the raw text and there is no owner.
C26_OwnerIffPrefixStripped ==
    \A task \in KeptTasks :
       /\ (task.owner # NoValue) <=> (task.description # task.text)
       /\ task.description = task.text => task.owner = NoValue

\* the half of C26 that the code keeps: a stripped prefix always yields an owner
C26_StrippedHasOwner ==
    \A task \in KeptTasks :
       task.description # task.text => task.owner # NoValue

-----------------------------------------------------------------------------
(* C27 *)

\* no task of the list has a conflicted description or the description of an entry
DisjointByDescription(taskList, conflicted, pending) ==
    \A n \in 1..Len(taskList) :
       /\ taskList[n].description \notin conflicted
       /\ \A k \in 1..Len(pending) : pending[k].description # taskList[n].description

\* C27: in every reachable state no confirmed task has a description that is conflicted
\* or that is the description of a pending confirmation, so filterConfirmedTasks, given
\* the tasks and the pending confirmations of the run or of its result, returns the
\* tasks unchanged.
C27_ConfirmedDisjointFromPending ==
    [](/\ DisjointByDescription(tasks, conflictedDescriptions, pendingConfirmations)
       /\ filterConfirmedTasks(tasks, pendingConfirmations) = tasks
       /\ result # NoResult =>
             filterConfirmedTasks(result.tasks, result.pending_confirmations) = result.tasks)

\* the run returned a confirmed task next to a pending confirmation for which a third
\* task of the conflicted description arrived after the eviction
C27_Witness ==
    /\ result # NoResult
    /\ result.tasks # <<>>
    /\ \E k \in 1..Len(result.pending_confirmations) :
          Cardinality({ text \in seenTask :
                          extractTaskDescription(text)
                            = result.pending_confirmations[k].description }) >= 3

-----------------------------------------------------------------------------
(* C28 *)

\* the positions of the raw texts of a description in a sequence of raw texts
PositionsOf(texts, description) ==
    { i \in 1..Len(texts) : extractTaskDescription(texts[i]) = description }

\* the earliest task of a description
EarliestOf(texts, description) == MeetingTask(texts[SetMin(PositionsOf(texts, description))])

\* C28: when a run returns, with the raw texts taken in the order in which they were
\* seen, every confirmed task and every indexed task is the earliest task of its
\* description, and a description is conflicted exactly when some later task of the
\* description disagrees with that earliest task on owner or due date, both present
\* and unequal.  A disagreement between two later tasks counts for nothing.
C28_FirstSeenDecides ==
    [](result # NoResult =>
       LET texts == ProcessedTaskTexts
           descriptions == { extractTaskDescription(texts[i]) : i \in 1..Len(texts) }
       IN  /\ result.tasks = tasks
           /\ \A n \in 1..Len(tasks) :
                 /\ tasks[n].description \in descriptions
                 /\ tasks[n] = EarliestOf(texts, tasks[n].description)
           /\ DOMAIN confirmedTaskByDescription \subseteq descriptions
           /\ \A description \in DOMAIN confirmedTaskByDescription :
                 confirmedTaskByDescription[description] = EarliestOf(texts, description)
           /\ conflictedDescriptions \subseteq descriptions
           /\ \A description \in descriptions :
                 LET earliest == EarliestOf(texts, description)
                 IN  description \in conflictedDescriptions
                       <=> \E i \in PositionsOf(texts, description) :
                              Disagree(earliest, MeetingTask(texts[i])))

\* the run returned with a description that is not conflicted although two later
\* tasks of it disagree with each other: neither disagrees with the earliest one
C28_Witness ==
    /\ result # NoResult
    /\ LET texts == ProcessedTaskTexts
       IN  \E n \in 1..Len(result.tasks) :
              LET description == result.tasks[n].description
              IN  /\ \E i, j \in PositionsOf(texts, description) :
                        Disagree(MeetingTask(texts[i]), MeetingTask(texts[j]))
                  /\ result.tasks[n] = EarliestOf(texts, description)
                  /\ description \notin conflictedDescriptions

-----------------------------------------------------------------------------
(* C29 *)

\* the attribute of a task that a conflict type names
NamedAttribute(conflictType, task) ==
    IF conflictType = "owner_conflict" THEN task.owner ELSE task.due_at

\* C29: in every state every pending confirmation has at least two candidates, its
\* candidates have pairwise distinct raw texts, and its first two candidates both
\* carry the attribute its conflict type names, owner for owner_conflict and due_at
\* for date_conflict, with unequal values.
C29_EntryHoldsTheDisagreeingPair ==
    [](\A k \in 1..Len(pendingConfirmations) :
          LET entry == pendingConfirmations[k]
              first == entry.candidates[1]
              second == entry.candidates[2]
          IN  /\ entry.conflict_type \in ConflictTypes
              /\ Len(entry.candidates) >= 2
              /\ \A m, n \in 1..Len(entry.candidates) :
                    entry.candidates[m].text = entry.candidates[n].text => m = n
              /\ NamedAttribute(entry.conflict_type, first) # NoValue
              /\ NamedAttribute(entry.conflict_type, second) # NoValue
              /\ NamedAttribute(entry.conflict_type, first)
                    # NamedAttribute(entry.conflict_type, second))

\* an entry took a late third candidate that does not carry the named attribute
C29_Witness ==
    \E k \in 1..Len(pendingConfirmations) :
       LET entry == pendingConfirmations[k]
       IN  /\ Len(entry.candidates) >= 3
           /\ NamedAttribute(entry.conflict_type, entry.candidates[3]) = NoValue

-----------------------------------------------------------------------------
(* C30 *)

\* the positions of the entries of a description
EntriesOf(pending, description) ==
    { k \in 1..Len(pending) : pending[k].description = description }

\* C30: in every state the pending confirmations hold at most one entry per pair of
\* conflict type and description, hence at most two per description, and only for
\* conflicted descriptions; at an eviction no entry of the description exists yet, so
\* every entry the eviction writes is a new one at the end of the list.
C30_OneEntryPerTypeAndDescription ==
    /\ [](/\ \A j, k \in 1..Len(pendingConfirmations) :
               ( /\ pendingConfirmations[j].conflict_type = pendingConfirmations[k].conflict_type
                 /\ pendingConfirmations[j].description = pendingConfirmations[k].description )
               => j = k
          /\ \A k \in 1..Len(pendingConfirmations) :
               /\ pendingConfirmations[k].description \in conflictedDescriptions
               /\ Cardinality(EntriesOf(pendingConfirmations,
                                        pendingConfirmations[k].description)) <= 2)
    /\ [][ (AtTaskLine /\ conflictedDescriptions' # conflictedDescriptions)
           => /\ EntriesOf(pendingConfirmations, CurTask.description) = {}
              /\ Len(pendingConfirmations') > Len(pendingConfirmations)
              /\ SubSeq(pendingConfirmations', 1, Len(pendingConfirmations))
                    = pendingConfirmations
              /\ \A k \in (Len(pendingConfirmations) + 1)..Len(pendingConfirmations') :
                    /\ pendingConfirmations'[k].description = CurTask.description
                    /\ Len(pendingConfirmations'[k].candidates) = 2 ]_vars

\* a description has its two entries, and a late candidate was merged into both
C30_Witness ==
    \E j, k \in 1..Len(pendingConfirmations) :
       /\ pendingConfirmations[j].description = pendingConfirmations[k].description
       /\ pendingConfirmations[j].conflict_type = "owner_conflict"
       /\ pendingConfirmations[k].conflict_type = "date_conflict"
       /\ Len(pendingConfirmations[j].candidates) >= 3
       /\ Len(pendingConfirmations[k].candidates) >= 3

-----------------------------------------------------------------------------
(* C31 *)

\* the conflict types queued for a description
TypesOf(pending, description) ==
    { pending[k].conflict_type : k \in EntriesOf(pending, description) }

\* C31: the conflict types of a description are fixed by the step that makes it
\* conflicted.  No later step creates an entry for it: a later task of the description,
\* whatever it disagrees on, leaves the number of entries and the types of the
\* description as they are.  When a description has an owner_conflict and a
\* date_conflict entry, their candidate lists are the same sequence in every state.
C31_ConflictTypesFixedAtFirstConflict ==
    /\ [][ \A description \in conflictedDescriptions :
             /\ TypesOf(pendingConfirmations', description)
                   = TypesOf(pendingConfirmations, description)
             /\ EntriesOf(pendingConfirmations', description)
                   = EntriesOf(pendingConfirmations, description) ]_vars
    /\ [][ (AtTaskLine /\ CurTask.description \in conflictedDescriptions)
           => Len(pendingConfirmations') = Len(pendingConfirmations) ]_vars
    /\ [](\A j, k \in 1..Len(pendingConfirmations) :
             pendingConfirmations[j].description = pendingConfirmations[k].description
             => pendingConfirmations[j].candidates = pendingConfirmations[k].candidates)

\* a description queued for owner_conflict only took a late candidate that disagrees
\* with the first candidate on the due date
C31_Witness ==
    \E k \in 1..Len(pendingConfirmations) :
       LET entry == pendingConfirmations[k]
       IN  /\ TypesOf(pendingConfirmations, entry.description) = {"owner_conflict"}
           /\ Len(entry.candidates) >= 3
           /\ DisagreeDate(entry.candidates[1], entry.candidates[3])

-----------------------------------------------------------------------------
(* C32 *)

\* the raw texts of all candidates of the pending confirmations
AllCandidateTexts ==
    UNION { { pendingConfirmations[k].candidates[n].text :
                n \in 1..Len(pendingConfirmations[k].candidates) } :
            k \in 1..Len(pendingConfirmations) }

\* C32: in every state every candidate has the description of its entry, the raw text
\* of every candidate and of every confirmed task is in the seen-task set, and no raw
\* text is both in the confirmed list and in a candidate list.
C32_CandidatesBelongAndAreSeen ==
    [](/\ \A k \in 1..Len(pendingConfirmations) :
            \A n \in 1..Len(pendingConfirmations[k].candidates) :
               pendingConfirmations[k].candidates[n].description
                 = pendingConfirmations[k].description
       /\ AllCandidateTexts \subseteq seenTask
       /\ \A n \in 1..Len(tasks) :
            /\ tasks[n].text \in seenTask
            /\ tasks[n].text \notin AllCandidateTexts)

\* a confirmed task stands next to an entry that took a late candidate
C32_Witness ==
    /\ tasks # <<>>
    /\ \E k \in 1..Len(pendingConfirmations) :
          Len(pendingConfirmations[k].candidates) >= 3

-----------------------------------------------------------------------------
(* C33 *)

\* the payload that streams the lines of all consumed chunks as one chunk
AsOneChunk ==
    [payload EXCEPT !.transcript_stream = Arr(<<Str(Concat(chunks))>>)]

\* C33: chunk boundaries do not affect the final extraction.  The result of a run
\* whose lines arrived in any number of consecutive chunks has the decisions, the
\* confirmed tasks, the pending confirmations, decision_count and task_count of the
\* run that receives the same lines, in the same order, as one chunk.
C33_ChunkBoundariesDoNotMatter ==
    [](result # NoResult =>
         LET one == RunAlone(newCall(AsOneChunk)).result
         IN  /\ result.decisions = one.decisions
             /\ result.tasks = one.tasks
             /\ result.pending_confirmations = one.pending_confirmations
             /\ result.decision_count = one.decision_count
             /\ result.task_count = one.task_count)

\* a run of three chunks returned, an eviction and a decision fell in different
\* chunks, a line came twice, and its updates differ from the one-chunk run's
C33_Witness ==
    /\ result # NoResult
    /\ Len(chunks) = 3
    /\ result.pending_confirmations # <<>>
    /\ result.decisions # <<>>
    /\ \E j, k \in 1..3 : j # k /\ Range(chunks[j]) \cap Range(chunks[k]) # {}
    /\ result.incremental_updates
         # RunAlone(newCall(AsOneChunk)).result.incremental_updates

-----------------------------------------------------------------------------
(* C34 *)

\* C34: upsertPendingConfirmation and enqueueConflict are equivalent.  The queue that
\* a series of upserts leaves equals the queue that the same series of enqueueConflict
\* calls returns, and on every such queue, for every conflict type, description and
\* candidate list, the two give the same entries in the same order with the same
\* candidates in the same order.
C34_UpsertEqualsEnqueue ==
    /\ lib.pending = lib.queue
    /\ \A conflictType \in ConflictTypes, description \in QueueDescriptions,
          candidates \in CandidateLists :
          upsertPendingConfirmation(lib.pending, conflictType, description, candidates)
            = enqueueConflict(lib.pending, conflictType, description, candidates)

\* the second call went to the entry that the first call made, with one candidate
\* whose text the entry held and one that is new
C34_Witness ==
    /\ lib.enqueued = 2
    /\ Len(lib.pending) = 1
    /\ Len(lib.args[3]) = 2
    /\ Len(lib.pending[1].candidates) = 3
    /\ lib.args[3][1].text = lib.pending[1].candidates[1].text
    /\ lib.args[3][2] = lib.pending[1].candidates[3]

-----------------------------------------------------------------------------
(* C35 *)

\* the raw texts of a task list, in order
TextSeq(list) == [ k \in 1..Len(list) |-> list[k].text ]

RECURSIVE IsSubsequence(_, _)
\* s is t with some elements left out
IsSubsequence(s, t) ==
    IF s = <<>> THEN TRUE
    ELSE IF t = <<>> THEN FALSE
    ELSE IF Head(s) = Head(t) THEN IsSubsequence(Tail(s), Tail(t))
    ELSE IsSubsequence(s, Tail(t))

\* C35: for the payload of a run that returned, adaptMeetingInput gives the decisions,
\* the chunks, the source type, the transcript text and, update by update, the
\* decision deltas of the workflow.  The adapter's tasks are the distinct raw texts
\* seen, each once, and its tasks_added are never negative; the workflow's confirmed
\* tasks are a subsequence of them and every pending candidate is one of them.
C35_AdapterAgreesWithWorkflow ==
    [](result # NoResult =>
         LET adapted == adaptMeetingInput(payload)
         IN  /\ adapted.decisions = result.decisions
             /\ adapted.decision_count = result.decision_count
             /\ adapted.chunks = chunks
             /\ adapted.source_type = result.source_type
             /\ adapted.transcript_text = result.transcript_text
             /\ Len(adapted.incremental_updates) = Len(result.incremental_updates)
             /\ \A i \in 1..Len(adapted.incremental_updates) :
                   LET mine == adapted.incremental_updates[i]
                       theirs == result.incremental_updates[i]
                   IN  /\ mine.chunk_index = theirs.chunk_index
                       /\ mine.decisions_added = theirs.decisions_added
                       /\ mine.total_decisions = theirs.total_decisions
                       /\ mine.tasks_added >= 0
             /\ NoRepeat(TextSeq(adapted.tasks))
             /\ TextsOf(adapted.tasks) = seenTask
             /\ adapted.task_count = Len(adapted.tasks)
             /\ IsSubsequence(result.tasks, adapted.tasks)
             /\ \A k \in 1..Len(result.pending_confirmations) :
                   Range(result.pending_confirmations[k].candidates)
                     \subseteq Range(adapted.tasks))

\* the run returned with a confirmed task and a pending confirmation, a line came
\* twice, and the adapter counts more tasks than the workflow, whose last update has
\* a negative tasks_added
C35_Witness ==
    /\ result # NoResult
    /\ result.tasks # <<>>
    /\ result.pending_confirmations # <<>>
    /\ adaptMeetingInput(payload).task_count > result.task_count
    /\ Len(ProcessedTaskTexts) > Cardinality(seenTask)
    /\ result.incremental_updates[Len(result.incremental_updates)].tasks_added < 0

-----------------------------------------------------------------------------
(* C36 *)

\* the returned queue holds what enqueueConflict, computed on values, gives for the
\* queue that the input held and the arguments of the call
StoreAgreesWithValues ==
    lib.args # <<>> =>
        queueValue(lib.store, lib.queue)
          = enqueueConflict(lib.inputs[Len(lib.inputs)].held,
                            lib.args[1], lib.args[2], lib.args[3])

\* C36: enqueueConflict leaves its input queue unchanged.  After every call the queue
\* that was given to the call, and every queue given to an earlier call, has the
\* entries and each entry the candidates that it had before the call, whether the
\* call added an entry or appended candidates to an entry.
C36_EnqueueLeavesInputUnchanged ==
    /\ \A n \in 1..Len(lib.inputs) :
          queueValue(lib.store, lib.inputs[n].ref) = lib.inputs[n].held
    /\ \A n \in 1..Len(lib.inputs) : lib.inputs[n].ref # lib.queue
    /\ StoreAgreesWithValues

\* the second call appended a candidate to the entry that the first call made: the
\* returned queue has one entry with two candidates, its input still one with one
C36_Witness ==
    /\ lib.enqueued = 2
    /\ Len(queueValue(lib.store, lib.queue)) = 1
    /\ Len(queueValue(lib.store, lib.queue)[1].candidates) = 2
    /\ Len(queueValue(lib.store, lib.inputs[2].ref)) = 1
    /\ Len(queueValue(lib.store, lib.inputs[2].ref)[1].candidates) = 1

-----------------------------------------------------------------------------
(* C37 *)

\* C37: in every state the index maps a description to a task exactly when that task
\* is in the confirmed list and has that description, so the list holds one task per
\* indexed description and an eviction, which deletes the index entry and filters the
\* list by description, removes exactly one element of the list.
C37_IndexMatchesConfirmedList ==
    /\ [](/\ \A description \in DOMAIN confirmedTaskByDescription :
               /\ confirmedTaskByDescription[description].description = description
               /\ InSeq(confirmedTaskByDescription[description], tasks)
          /\ \A n \in 1..Len(tasks) :
               /\ tasks[n].description \in DOMAIN confirmedTaskByDescription
               /\ confirmedTaskByDescription[tasks[n].description] = tasks[n]
          /\ Len(tasks) = Cardinality(DOMAIN confirmedTaskByDescription))
    /\ [][ (AtTaskLine /\ conflictedDescriptions' # conflictedDescriptions)
           => /\ Len(tasks') = Len(tasks) - 1
              /\ DOMAIN confirmedTaskByDescription'
                    = DOMAIN confirmedTaskByDescription \ {CurTask.description}
              /\ \E n \in 1..Len(tasks) :
                    /\ tasks[n].description = CurTask.description
                    /\ tasks' = RemoveAt(tasks, n) ]_vars

\* after an eviction between two confirmed tasks of other descriptions, both are
\* still indexed and listed
C37_Witness ==
    /\ conflictedDescriptions # {}
    /\ Len(tasks) = 2
    /\ pendingConfirmations # <<>>
    /\ \E text \in AllCandidateTexts :
          /\ FirstIndex(ProcessedTaskTexts, tasks[1].text)
               < FirstIndex(ProcessedTaskTexts, text)
          /\ FirstIndex(ProcessedTaskTexts, text)
               < FirstIndex(ProcessedTaskTexts, tasks[2].text)
=============================================================================
